---- MODULE Spec2Model ----
(***************************************************************************)
(* A model of OverlayPal's OverlayOptimiser (src/cpp/OverlayOptimiser.cpp): *)
(* the solution decoder, the two-pass conversion, the sprite extractor and  *)
(* the horizontal-adjacency optimiser.                                      *)
(*                                                                          *)
(* Images, grid layers and palette-index grids are functions over 0-based   *)
(* (x, y) coordinates; a palette list is a sequence of colour sets whose    *)
(* C++ index p is the TLA+ index p + 1.                                     *)
(***************************************************************************)
EXTENDS Integers, Sequences, FiniteSets, TLC

\* ------------------------------------------------------------------------
\* Hardware configuration (OverlayOptimiser.h, not part of the sources at
\* hand).  The values are scaled down so that whole images can be
\* enumerated; the code only uses them symbolically.
SpriteWidth == 2
NumBackgroundPalettes == 2
NumSpritePalettes == 2
PaletteGroupSize == 4

\* ------------------------------------------------------------------------
\* Bounds of the model
MaxFileLines == 3       \* lines of a solution file, header included
MaxColor == 2           \* ink colours are 1..MaxColor, 0 is the background
GridW == 2              \* image width in sprite cells
GridH == 1              \* image height in sprite cells
MaxCellColorLimit == 2  \* largest cellColorLimit argument
MaxScanlineLimit == 1   \* largest maxSpritesPerScanline argument
MaxSprites == 4         \* longest sprite list given to the adjacency optimiser
MaxTimeOut == 2         \* time-outs given to the solver gateway are -MaxTimeOut..MaxTimeOut
MaxProgramLines == 2    \* lines of the solver program handed to the gateway
MaxExtraPixels == 1     \* the layer split is given images up to this much wider than one cell
MaxPaletteColors == 4   \* largest cellColorLimit of the palettes given to the remapping
MaxBands == 2           \* rows of the images given to the free-sprite extraction

\* ------------------------------------------------------------------------
\* Array2D / Image2D / GridLayer (declared in headers that are not part of
\* the sources at hand; modelled from their uses in OverlayOptimiser.cpp)
Coords(w, h) == (0..(w - 1)) \X (0..(h - 1))

Array2D(w, h, fill) == [w |-> w, h |-> h, at |-> [p \in Coords(w, h) |-> fill]]

Image2D(w, h, fill) == Array2D(w, h, fill)

BlankGridLayer(cw, ch, w, h) ==
    [cellWidth |-> cw, cellHeight |-> ch, w |-> w, h |-> h,
     colors |-> [p \in Coords(w, h) |-> {}]]

CellPixels(cw, ch, x, y) ==
    { <<x * cw + j, y * ch + i>> : j \in 0..(cw - 1), i \in 0..(ch - 1) }

ImageGridLayer(backgroundColor, cw, ch, image) ==
    LET w == image.w \div cw
        h == image.h \div ch
    IN [cellWidth |-> cw, cellHeight |-> ch, w |-> w, h |-> h,
        colors |-> [p \in Coords(w, h) |->
                      { image.at[q] : q \in CellPixels(cw, ch, p[1], p[2]) }
                        \ {backgroundColor}]]

ImageEmpty(image, backgroundColor) ==
    \A p \in Coords(image.w, image.h) : image.at[p] = backgroundColor

\* ------------------------------------------------------------------------
\* Solution file: a sequence of lines.  A line is described by what the
\* decoder looks at: the text it starts with, the marker texts it contains
\* anywhere, the bracketed indices, the type tag and the activity value.
NoSolutionString == "No solution has been found"
HeaderMarker == "Problem;"

ErrHeader == "Solution file header unrecognized"
ErrNoSolution == "No solution found"

Line(start, has, idx, tag, val) ==
    [start |-> start, has |-> has, idx |-> idx, tag |-> tag, val |-> val]

HeaderLine == Line("CMPL csv export", {HeaderMarker}, <<>>, "", 0)
NoSolutionLine == Line(NoSolutionString, {NoSolutionString}, <<>>, "", 0)
NoSolutionMidLine == Line("Status;", {NoSolutionString}, <<>>, "", 0)
OtherLine == Line("Nr. of variables;", {}, <<>>, "", 0)

VarLine(name, idx, tag, val) == Line(name, {}, idx, tag, val)

\* line.find(s) != npos
LineContains(line, s) == line.start = s \/ s \in line.has

\* line.rfind(prefix, 0) == 0
StartsWith(line, s) == line.start = s

\* line.find(noSolutionString, 0) == 0
IsNoSolutionLine(line) == StartsWith(line, NoSolutionString)

ColorsBackgroundPrefix(secondPass) ==
    IF secondPass THEN "colorsOverlayGrid[" ELSE "colorsBG["
ColorsOverlayPrefix(secondPass) ==
    IF secondPass THEN "colorsOverlayFree[" ELSE "colorsOverlay["
PalettesNamePrefix(secondPass) ==
    IF secondPass THEN "palettesOverlay[" ELSE "palettesBG["
UsesPalettePrefix(secondPass) ==
    IF secondPass THEN "usesPaletteOverlay[" ELSE "usesPaletteBG["

\* The offset added to a decoded palette-usage index, and a variant that
\* adds none.
NoPaletteIndexOffset(secondPass) == 0

PaletteIndexOffset(secondPass) == IF secondPass THEN NumBackgroundPalettes ELSE 0

\* parseSolutionValue: the indices are cleared, and indices and activity are
\* read only from a line that has brackets and a ;B; or ;I; tag; otherwise
\* the activity keeps its previous value.
ParseSolutionValue(line, value) ==
    IF line.idx # <<>> /\ line.tag \in {"B", "I"}
    THEN [indices |-> line.idx, value |-> line.val]
    ELSE [indices |-> <<>>, value |-> value]

ResizePalettes(palettes, n) ==
    IF n > Len(palettes)
    THEN palettes \o [i \in 1..(n - Len(palettes)) |-> {}]
    ELSE palettes

\* One iteration of the decoder's loop over the lines after the header.
\* st.err # "" once an exception has been thrown: the loop has ended.
ParseLine(st, line, secondPass) ==
    IF st.err # "" THEN st
    ELSE IF IsNoSolutionLine(line)
    THEN [st EXCEPT !.err = ErrNoSolution]
    ELSE IF StartsWith(line, ColorsBackgroundPrefix(secondPass))
    THEN LET v == ParseSolutionValue(line, st.value)
         IN IF v.value = 1
            THEN [st EXCEPT !.value = v.value,
                            !.colorsBackground.colors[<<v.indices[1], v.indices[2]>>] =
                                @ \cup {v.indices[3]}]
            ELSE [st EXCEPT !.value = v.value]
    ELSE IF StartsWith(line, ColorsOverlayPrefix(secondPass))
    THEN LET v == ParseSolutionValue(line, st.value)
         IN IF v.value = 1
            THEN [st EXCEPT !.value = v.value,
                            !.colorsOverlay.colors[<<v.indices[1], v.indices[2]>>] =
                                @ \cup {v.indices[3]}]
            ELSE [st EXCEPT !.value = v.value]
    ELSE IF StartsWith(line, PalettesNamePrefix(secondPass))
    THEN LET v == ParseSolutionValue(line, st.value)
         IN IF v.value = 1
            THEN LET p == v.indices[1]
                     resized == ResizePalettes(st.palettes, p + 1)
                 IN [st EXCEPT !.value = v.value,
                               !.palettes = [resized EXCEPT ![p + 1] = @ \cup {v.indices[2]}]]
            ELSE [st EXCEPT !.value = v.value]
    ELSE IF StartsWith(line, UsesPalettePrefix(secondPass))
    THEN LET v == ParseSolutionValue(line, st.value)
         IN IF v.value = 1
            THEN [st EXCEPT !.value = v.value,
                            !.paletteIndices.at[<<v.indices[1], v.indices[2]>>] =
                                (v.indices[3] + PaletteIndexOffset(secondPass)) % 256]
            ELSE [st EXCEPT !.value = v.value]
    ELSE st

RECURSIVE ParseLines(_, _, _, _)
ParseLines(st, lines, k, secondPass) ==
    IF k > Len(lines) THEN st
    ELSE ParseLines(ParseLine(st, lines[k], secondPass), lines, k + 1, secondPass)

\* parseCmplSolution: the four outputs are passed by reference, so the
\* result holds them as they are when the function returns or throws.
ParseCmplSolution(lines, palettes, colorsBackground, colorsOverlay, paletteIndices, secondPass) ==
    LET st0 == [err |-> "", value |-> 0, palettes |-> palettes,
                colorsBackground |-> colorsBackground,
                colorsOverlay |-> colorsOverlay,
                paletteIndices |-> paletteIndices]
    IN IF Len(lines) = 0 \/ ~LineContains(lines[1], HeaderMarker)
       THEN [st0 EXCEPT !.err = ErrHeader]
       ELSE ParseLines([st0 EXCEPT !.palettes = <<>>], lines, 2, secondPass)

DecoderOutputs(st) ==
    [palettes |-> st.palettes, colorsBackground |-> st.colorsBackground,
     colorsOverlay |-> st.colorsOverlay, paletteIndices |-> st.paletteIndices]

\* ------------------------------------------------------------------------
\* A variant of setEmptyPaletteIndices that leaves every index as decoded.
SetEmptyPaletteIndicesKeepsDecoded(paletteIndices, layer, emptyIndex) == paletteIndices

\* A variant of setEmptyPaletteIndices that gives every empty cell index 0.
SetEmptyPaletteIndicesToZero(paletteIndices, layer, emptyIndex) ==
    [paletteIndices EXCEPT !.at =
        [p \in Coords(layer.w, layer.h) |->
            IF layer.colors[p] = {} THEN 0 ELSE paletteIndices.at[p]]]

\* setEmptyPaletteIndices
SetEmptyPaletteIndices(paletteIndices, layer, emptyIndex) ==
    [paletteIndices EXCEPT !.at =
        [p \in Coords(layer.w, layer.h) |->
            IF layer.colors[p] = {} THEN emptyIndex ELSE paletteIndices.at[p]]]

\* Variants of moveOverlayColors that leave the moved pixel in the
\* background image, or copy every pixel into the overlay image.
MoveOverlayColorsKeepsBackground(inputImage, imageBackground, imageOverlay, layerOverlay, backgroundColor) ==
    [imageBackground |-> [imageBackground EXCEPT !.at = inputImage.at],
     imageOverlay |->
        [imageOverlay EXCEPT !.at =
            [q \in Coords(imageOverlay.w, imageOverlay.h) |->
                IF inputImage.at[q] \in
                      layerOverlay.colors[<<q[1] \div layerOverlay.cellWidth,
                                            q[2] \div layerOverlay.cellHeight>>]
                THEN inputImage.at[q] ELSE backgroundColor]]]

MoveOverlayColorsCopiesOverlay(inputImage, imageBackground, imageOverlay, layerOverlay, backgroundColor) ==
    [imageBackground |->
        [imageBackground EXCEPT !.at =
            [q \in Coords(imageBackground.w, imageBackground.h) |->
                IF inputImage.at[q] \in
                      layerOverlay.colors[<<q[1] \div layerOverlay.cellWidth,
                                            q[2] \div layerOverlay.cellHeight>>]
                THEN backgroundColor ELSE inputImage.at[q]]],
     imageOverlay |-> [imageOverlay EXCEPT !.at = inputImage.at]]

\* moveOverlayColors: the two output images are written at every pixel of
\* every cell of layerOverlay; the result holds both images.
MoveOverlayColors(inputImage, imageBackground, imageOverlay, layerOverlay, backgroundColor) ==
    LET cw == layerOverlay.cellWidth
        ch == layerOverlay.cellHeight
        covered == UNION { CellPixels(cw, ch, c[1], c[2]) :
                           c \in Coords(layerOverlay.w, layerOverlay.h) }
        cellOf(q) == <<q[1] \div cw, q[2] \div ch>>
        moved(q) == inputImage.at[q] \in layerOverlay.colors[cellOf(q)]
    IN [imageBackground |->
            [imageBackground EXCEPT !.at =
                [q \in Coords(imageBackground.w, imageBackground.h) |->
                    IF q \in covered
                    THEN IF moved(q) THEN backgroundColor ELSE inputImage.at[q]
                    ELSE imageBackground.at[q]]],
        imageOverlay |->
            [imageOverlay EXCEPT !.at =
                [q \in Coords(imageOverlay.w, imageOverlay.h) |->
                    IF q \in covered
                    THEN IF moved(q) THEN inputImage.at[q] ELSE backgroundColor
                    ELSE imageOverlay.at[q]]]]

\* consistentLayers
ConsistentLayers(image, layer, palettes, paletteIndices, backgroundColor) ==
    \A c \in Coords(layer.w, layer.h) :
        /\ paletteIndices.at[c] < Len(palettes)
        /\ layer.colors[c] \subseteq palettes[paletteIndices.at[c] + 1]
        /\ \A q \in CellPixels(layer.cellWidth, layer.cellHeight, c[1], c[2]) :
              image.at[q] # backgroundColor => image.at[q] \in layer.colors[c]

\* fillMissingPaletteGroups
FillMissingPaletteGroups(palettes, numPalettes) == ResizePalettes(palettes, numPalettes)

\* ------------------------------------------------------------------------
\* writeCmplDataFile: the limits written at the head of the problem
\* description, and the layer facts.
WriteCmplDataFile(layer, gridCellColorLimit, maxBackgroundPalettes, maxSpritePalettes, maxRowSize) ==
    [CELL_COLOR_LIMIT |-> gridCellColorLimit,
     MAX_BG_PALETTES |-> maxBackgroundPalettes,
     MAX_SPR_PALETTES |-> maxSpritePalettes,
     OVERLAY_ROW_SIZE_LIMIT |-> maxRowSize,
     layerColors |-> layer.colors]

\* ------------------------------------------------------------------------
\* The external solver.  Its answer to a problem is any assignment that is
\* feasible for the problem: every colour of a cell is either kept in the
\* cell or released to the other layer, every palette holds at most
\* CELL_COLOR_LIMIT of the layer's colours, and every cell uses one palette
\* that holds the colours the cell keeps.  A palette holds exactly the
\* colours kept by the cells that use it, and a cell that keeps nothing is
\* reported with the last palette.  The first pass assigns background
\* palettes, the second pass (MAX_BG_PALETTES = 0) sprite palettes.
LayerColors(layer) == UNION { layer.colors[c] : c \in Coords(layer.w, layer.h) }

SolverNumPalettes(problem, secondPass) ==
    IF secondPass THEN problem.MAX_SPR_PALETTES ELSE problem.MAX_BG_PALETTES

SolverAssignments(layer, problem, secondPass) ==
    LET n == SolverNumPalettes(problem, secondPass)
        cells == Coords(layer.w, layer.h)
        choices == { [keep |-> k, use |-> u] : k \in SUBSET LayerColors(layer), u \in 0..(n - 1) }
        users(f, p) == { c \in cells : f[c].use = p }
        palOf(f) == [p \in 0..(n - 1) |-> UNION { f[c].keep : c \in users(f, p) }]
    IN { [pal |-> palOf(f), cell |-> f] :
           f \in { g \in [cells -> choices] :
                     /\ \A c \in cells : /\ g[c].keep \subseteq layer.colors[c]
                                        /\ g[c].keep = {} => g[c].use = n - 1
                     /\ \A p \in 0..(n - 1) :
                           Cardinality(palOf(g)[p]) <= problem.CELL_COLOR_LIMIT } }

\* The solution table the solver writes for an assignment: one line per
\* variable, in the order colours, palettes, palette uses.
Tabulate(n, F(_)) == [i \in 1..n |-> F(i - 1)]

SolutionFile(layer, a, n, secondPass) ==
    LET w == layer.w
        h == layer.h
        b(t) == IF t THEN 1 ELSE 0
        colorLine(k, kept) ==
            LET x == k \div (h * MaxColor)
                y == (k \div MaxColor) % h
                c == (k % MaxColor) + 1
                v == IF kept THEN c \in a.cell[<<x, y>>].keep
                     ELSE c \in layer.colors[<<x, y>>] \ a.cell[<<x, y>>].keep
            IN VarLine(IF kept THEN ColorsBackgroundPrefix(secondPass)
                       ELSE ColorsOverlayPrefix(secondPass),
                       <<x, y, c>>, "B", b(v))
        keptLine(k) == colorLine(k, TRUE)
        releasedLine(k) == colorLine(k, FALSE)
        paletteLine(k) ==
            LET p == k \div MaxColor
                c == (k % MaxColor) + 1
            IN VarLine(PalettesNamePrefix(secondPass), <<p, c>>, "B", b(c \in a.pal[p]))
        usesLine(k) ==
            LET x == k \div (h * n)
                y == (k \div n) % h
                p == k % n
            IN VarLine(UsesPalettePrefix(secondPass), <<x, y, p>>, "B",
                       b(a.cell[<<x, y>>].use = p))
    IN <<HeaderLine, OtherLine>>
       \o Tabulate(w * h * MaxColor, keptLine)
       \o Tabulate(w * h * MaxColor, releasedLine)
       \o Tabulate(n * MaxColor, paletteLine)
       \o Tabulate(w * h * n, usesLine)

NoSolutionFile == <<HeaderLine, OtherLine, NoSolutionLine>>

\* What one run of the solver leaves behind: its exit code and, when the
\* exit code is zero, the solution file.
SolverRuns(layer, problem, secondPass) ==
    { [exitCode |-> 1, file |-> <<>>], [exitCode |-> 0, file |-> NoSolutionFile] }
    \cup { [exitCode |-> 0,
            file |-> SolutionFile(layer, a, SolverNumPalettes(problem, secondPass), secondPass)] :
           a \in SolverAssignments(layer, problem, secondPass) }

\* ------------------------------------------------------------------------
\* Refinement heuristics (defined outside the sources at hand; modelled
\* from the contract the specification states for them).

\* A colour released by a cell whose assigned palette already holds it is
\* moved back into the cell.
OptimizeUnnecessaryOverlayColors(layerBackground, layerOverlay, paletteIndices, palettes) ==
    LET back(c) ==
            IF paletteIndices.at[c] < Len(palettes)
            THEN layerOverlay.colors[c] \cap palettes[paletteIndices.at[c] + 1]
            ELSE {}
        cells == Coords(layerBackground.w, layerBackground.h)
    IN [layerBackground |->
            [layerBackground EXCEPT !.colors =
                [c \in cells |-> layerBackground.colors[c] \cup back(c)]],
        layerOverlay |->
            [layerOverlay EXCEPT !.colors =
                [c \in cells |-> layerOverlay.colors[c] \ back(c)]]]

\* Two palettes of the sub-range that starts at paletteIndicesOffset are
\* merged into the lower one when their union fits the colour limit; the
\* cells that used the higher one are renumbered.
MergeablePairs(palettes, paletteIndicesOffset, gridCellColorLimit) ==
    { pr \in ((paletteIndicesOffset + 1)..Len(palettes)) \X ((paletteIndicesOffset + 1)..Len(palettes)) :
        /\ pr[1] < pr[2]
        /\ palettes[pr[2]] # {}
        /\ Cardinality(palettes[pr[1]] \cup palettes[pr[2]]) <= gridCellColorLimit }

RECURSIVE OptimizeUnnecessaryPalettes(_, _, _, _)
OptimizeUnnecessaryPalettes(paletteIndices, paletteIndicesOffset, palettes, gridCellColorLimit) ==
    LET pairs == MergeablePairs(palettes, paletteIndicesOffset, gridCellColorLimit)
    IN IF pairs = {}
       THEN [paletteIndices |-> paletteIndices, palettes |-> palettes]
       ELSE LET pr == CHOOSE a \in pairs :
                        \A b \in pairs : a[1] < b[1] \/ (a[1] = b[1] /\ a[2] <= b[2])
                merged == [palettes EXCEPT ![pr[1]] = palettes[pr[1]] \cup palettes[pr[2]],
                                           ![pr[2]] = {}]
                renumbered ==
                    [paletteIndices EXCEPT !.at =
                        [c \in DOMAIN paletteIndices.at |->
                            IF paletteIndices.at[c] = pr[2] - 1
                            THEN pr[1] - 1 ELSE paletteIndices.at[c]]]
            IN OptimizeUnnecessaryPalettes(renumbered, paletteIndicesOffset, merged,
                                           gridCellColorLimit)

\* A cell takes the palette of its left neighbour when that palette holds
\* the cell's colours.
OptimizeContinuity(layer, paletteIndices, palettes) ==
    LET f[c \in Coords(layer.w, layer.h)] ==
            IF c[1] = 0 THEN paletteIndices.at[c]
            ELSE LET q == f[<<c[1] - 1, c[2]>>]
                 IN IF q < Len(palettes) /\ layer.colors[c] \subseteq palettes[q + 1]
                    THEN q ELSE paletteIndices.at[c]
    IN [paletteIndices EXCEPT !.at = f]

\* ------------------------------------------------------------------------
\* Sprites
\* extractSprite (defined outside the sources at hand): the block of the
\* image at (x, y), keeping the pixels whose colour the palette holds; with
\* removePixels the kept pixels are cleared in the image.
ExtractSprite(overlayImage, x, y, width, height, palette, backgroundColor, removePixels) ==
    LET inside(q) == x + q[1] < overlayImage.w /\ y + q[2] < overlayImage.h
        kept(q) == inside(q) /\ overlayImage.at[<<x + q[1], y + q[2]>>] \in palette
                             /\ overlayImage.at[<<x + q[1], y + q[2]>>] # backgroundColor
        block == Coords(width, height)
    IN [sprite |->
            [x |-> x, y |-> y, p |-> 0,
             pixels |-> [q \in block |->
                           IF kept(q) THEN overlayImage.at[<<x + q[1], y + q[2]>>]
                           ELSE backgroundColor],
             colors |-> { overlayImage.at[<<x + q[1], y + q[2]>>] : q \in { r \in block : kept(r) } },
             numBlankPixelsLeft |-> 0, numBlankPixelsRight |-> 0],
        image |->
            IF removePixels
            THEN [overlayImage EXCEPT !.at =
                    [q \in Coords(overlayImage.w, overlayImage.h) |->
                        IF q[1] >= x /\ q[1] < x + width /\ q[2] >= y /\ q[2] < y + height
                           /\ overlayImage.at[q] \in palette
                        THEN backgroundColor ELSE overlayImage.at[q]]]
            ELSE overlayImage]

\* extractSpriteWithBestPalette: bestMaxColors is never raised above 0, so
\* bestIndex ends as the last sprite palette that retains any colour, and
\* stays 0 when none does.
RECURSIVE BestIndexFrom(_, _, _, _, _, _, _, _)
BestIndexFrom(palettes, overlayImage, x, y, width, height, backgroundColor, i) ==
    IF i < NumBackgroundPalettes THEN 0
    ELSE IF ExtractSprite(overlayImage, x, y, width, height, palettes[i + 1],
                          backgroundColor, FALSE).sprite.colors # {}
    THEN i
    ELSE BestIndexFrom(palettes, overlayImage, x, y, width, height, backgroundColor, i - 1)

BestIndex(palettes, overlayImage, x, y, width, height, backgroundColor) ==
    BestIndexFrom(palettes, overlayImage, x, y, width, height, backgroundColor,
                  NumBackgroundPalettes + NumSpritePalettes - 1)

ExtractSpriteWithBestPalette(palettes, backgroundColor, overlayImage, x, y, width, height, removePixels) ==
    LET bestIndex == BestIndex(palettes, overlayImage, x, y, width, height, backgroundColor)
        e == ExtractSprite(overlayImage, x, y, width, height, palettes[bestIndex + 1],
                           backgroundColor, removePixels)
    IN [sprite |-> [e.sprite EXCEPT !.p = bestIndex], image |-> e.image]

\* spritesOverlayGrid: one sprite per non-empty cell, in row-major order.
RECURSIVE SpritesOverlayGridFrom(_, _, _, _, _, _, _)
SpritesOverlayGridFrom(layer, paletteIndicesOverlay, overlayImage, palettes, spriteHeight, backgroundColor, k) ==
    IF k >= layer.w * layer.h THEN <<>>
    ELSE LET x == k % layer.w
             y == k \div layer.w
             p == paletteIndicesOverlay.at[<<x, y>>]
             rest == SpritesOverlayGridFrom(layer, paletteIndicesOverlay, overlayImage,
                                            palettes, spriteHeight, backgroundColor, k + 1)
         IN IF layer.colors[<<x, y>>] # {}
            THEN <<[ExtractSprite(overlayImage, x * layer.cellWidth, y * layer.cellHeight,
                                  SpriteWidth, spriteHeight, palettes[p + 1],
                                  backgroundColor, FALSE).sprite EXCEPT !.p = p]>> \o rest
            ELSE rest

\* spritesOverlayFree: bands of spriteHeight rows, each scanned left to right.
EmptyRow(image, y, backgroundColor) ==
    \A x \in 0..(image.w - 1) : image.at[<<x, y>>] = backgroundColor

RECURSIVE SkipEmptyRows(_, _, _)
SkipEmptyRows(image, y, backgroundColor) ==
    IF y < image.h /\ EmptyRow(image, y, backgroundColor)
    THEN SkipEmptyRows(image, y + 1, backgroundColor)
    ELSE y

ColumnHasPixels(image, x, y, spriteHeight, backgroundColor) ==
    \E i \in y..(y + spriteHeight - 1) :
        i < image.h /\ image.at[<<x, i>>] # backgroundColor

RECURSIVE FreeBand(_, _, _, _, _, _)
RECURSIVE FreeColumns(_, _, _, _, _, _, _)
RECURSIVE FreeExtracted(_, _, _, _, _, _, _)
FreeColumns(palettes, backgroundColor, spriteHeight, overlayImage, sprites, x, y) ==
    IF x >= overlayImage.w
    THEN FreeBand(palettes, backgroundColor, spriteHeight, overlayImage, sprites, y + spriteHeight)
    ELSE IF ColumnHasPixels(overlayImage, x, y, spriteHeight, backgroundColor)
    THEN FreeExtracted(palettes, backgroundColor, spriteHeight, sprites, x, y,
                       ExtractSpriteWithBestPalette(palettes, backgroundColor, overlayImage,
                                                    x, y, SpriteWidth, spriteHeight, TRUE))
    ELSE FreeColumns(palettes, backgroundColor, spriteHeight, overlayImage, sprites, x + 1, y)

\* the inner while loop of spritesOverlayFree, after one extraction s
FreeExtracted(palettes, backgroundColor, spriteHeight, sprites, x, y, s) ==
    IF s.sprite.colors # {}
    THEN FreeColumns(palettes, backgroundColor, spriteHeight, s.image,
                     Append(sprites, s.sprite), x, y)
    ELSE FreeColumns(palettes, backgroundColor, spriteHeight, s.image, sprites, x + 1, y)

FreeBand(palettes, backgroundColor, spriteHeight, overlayImage, sprites, y) ==
    IF y >= overlayImage.h THEN sprites
    ELSE FreeColumns(palettes, backgroundColor, spriteHeight, overlayImage, sprites, 0,
                     SkipEmptyRows(overlayImage, y, backgroundColor))

SpritesOverlayFreeOf(palettes, backgroundColor, spriteHeight, overlayImage) ==
    FreeBand(palettes, backgroundColor, spriteHeight, overlayImage, <<>>, 0)

\* getNumBlankPixelsLeft / getNumBlankPixelsRight
BlankColumn(sprite, x, spriteHeight, backgroundColor) ==
    \A y \in 0..(spriteHeight - 1) : sprite.pixels[<<x, y>>] = backgroundColor

GetNumBlankPixelsLeft(sprite, spriteHeight, backgroundColor) ==
    LET inked == { x \in 0..(SpriteWidth - 1) :
                     ~BlankColumn(sprite, x, spriteHeight, backgroundColor) }
    IN IF inked = {} THEN SpriteWidth
       ELSE CHOOSE x \in inked : \A z \in inked : x <= z

GetNumBlankPixelsRight(sprite, spriteHeight, backgroundColor) ==
    LET inked == { x \in 0..(SpriteWidth - 1) :
                     ~BlankColumn(sprite, SpriteWidth - 1 - x, spriteHeight, backgroundColor) }
    IN IF inked = {} THEN SpriteWidth
       ELSE CHOOSE x \in inked : \A z \in inked : x <= z

\* getAdjacentSlices: the list is cut before every sprite that is not one
\* sprite width to the right of its predecessor on the same row with the
\* same palette.
Breaks(sprites) ==
    { i \in 2..Len(sprites) :
        \/ sprites[i].x # sprites[i - 1].x + SpriteWidth
        \/ sprites[i].y # sprites[i - 1].y
        \/ sprites[i].p # sprites[i - 1].p }

RECURSIVE GetAdjacentSlices(_)
GetAdjacentSlices(sprites) ==
    IF Len(sprites) = 0 THEN <<>>
    ELSE IF Breaks(sprites) = {} THEN <<sprites>>
    ELSE LET i == CHOOSE b \in Breaks(sprites) : \A c \in Breaks(sprites) : b <= c
         IN <<SubSeq(sprites, 1, i - 1)>>
            \o GetAdjacentSlices(SubSeq(sprites, i, Len(sprites)))

\* optimizeHorizontallyAdjacentSprites, for one slice: the two nested loops
\* over firstIndex and lastIndex (0-based), with the erase and the jump of
\* firstIndex inside the inner loop.
RemoveAt(seq, k) == SubSeq(seq, 1, k - 1) \o SubSeq(seq, k + 1, Len(seq))

AlwaysMerge(leftMostSprite, rightMostSprite) == TRUE

MergeCondition(leftMostSprite, rightMostSprite) ==
    leftMostSprite.numBlankPixelsLeft + rightMostSprite.numBlankPixelsRight >= SpriteWidth

ShiftAndErase(adjacentSlice, firstIndex, lastIndex) ==
    LET shift == adjacentSlice[firstIndex + 1].numBlankPixelsLeft
        shifted == [i \in 1..Len(adjacentSlice) |->
                      IF i - 1 >= firstIndex /\ i - 1 < lastIndex
                      THEN [adjacentSlice[i] EXCEPT !.x = @ + shift]
                      ELSE adjacentSlice[i]]
    IN RemoveAt(shifted, lastIndex + 1)

RECURSIVE OptimizeSlice(_, _, _)
OptimizeSlice(adjacentSlice, firstIndex, lastIndex) ==
    IF firstIndex >= Len(adjacentSlice) THEN adjacentSlice
    ELSE IF lastIndex >= Len(adjacentSlice)
    THEN OptimizeSlice(adjacentSlice, firstIndex + 1, firstIndex + 2)
    ELSE IF MergeCondition(adjacentSlice[firstIndex + 1], adjacentSlice[lastIndex + 1])
    THEN OptimizeSlice(ShiftAndErase(adjacentSlice, firstIndex, lastIndex),
                       lastIndex, lastIndex + 1)
    ELSE OptimizeSlice(adjacentSlice, firstIndex, lastIndex + 1)

RECURSIVE ConcatSlices(_, _)
ConcatSlices(slices, k) ==
    IF k > Len(slices) THEN <<>>
    ELSE OptimizeSlice(slices[k], 0, 1) \o ConcatSlices(slices, k + 1)

OptimizeHorizontallyAdjacentSprites(sprites) ==
    ConcatSlices(GetAdjacentSlices(sprites), 1)

\* spritesOverlay
WithBlankCounts(sprites, spriteHeight, backgroundColor) ==
    [i \in 1..Len(sprites) |->
        [sprites[i] EXCEPT
            !.numBlankPixelsLeft = GetNumBlankPixelsLeft(sprites[i], spriteHeight, backgroundColor),
            !.numBlankPixelsRight = GetNumBlankPixelsRight(sprites[i], spriteHeight, backgroundColor)]]

SpritesOverlayGrid(mm) ==
    SpritesOverlayGridFrom(mm.mLayerOverlay, mm.mPaletteIndicesOverlay,
                           mm.mOutputImageOverlayGrid, mm.mPalettes,
                           mm.mSpriteHeight, mm.mBackgroundColor, 0)

SpritesOverlayFree(mm) ==
    SpritesOverlayFreeOf(mm.mPalettes, mm.mBackgroundColor, mm.mSpriteHeight,
                         mm.mOutputImageOverlayFree)

SpritesOverlay(mm) ==
    OptimizeHorizontallyAdjacentSprites(
        WithBlankCounts(SpritesOverlayGrid(mm) \o SpritesOverlayFree(mm),
                        mm.mSpriteHeight, mm.mBackgroundColor))

\* indexInPalette: the 1-based rank of the colour in the ordered palette,
\* 0 when the palette does not hold it.
IndexInPalette(palette, color) ==
    IF color \in palette THEN Cardinality({ c \in palette : c <= color }) ELSE 0

RECURSIVE BitOr(_, _)
BitOr(a, b) ==
    IF a = 0 THEN b
    ELSE IF b = 0 THEN a
    ELSE (IF a % 2 = 1 \/ b % 2 = 1 THEN 1 ELSE 0) + 2 * BitOr(a \div 2, b \div 2)

\* remapColors
RemapColors(image, layer, palettes, paletteIndices) ==
    [image EXCEPT !.at =
        [q \in Coords(image.w, image.h) |->
            LET paletteIndex == paletteIndices.at[<<q[1] \div layer.cellWidth,
                                                    q[2] \div layer.cellHeight>>]
                palette == palettes[paletteIndex + 1]
            IN IF image.at[q] \in palette
               THEN (paletteIndex * PaletteGroupSize + IndexInPalette(palette, image.at[q])) % 256
               ELSE 0]]

OutputImageBackground(mm) ==
    RemapColors(mm.mOutputImageBackground, mm.mLayerBackground, mm.mPalettes,
                mm.mPaletteIndicesBackground)

OutputImageOverlayGrid(mm) ==
    RemapColors(mm.mOutputImageOverlayGrid, mm.mLayerOverlay, mm.mPalettes,
                mm.mPaletteIndicesOverlay)

\* outputImageOverlayFree: the free sprites are drawn in list order into a
\* zeroed image, so that a pixel shows the last sprite that inks it.
InkingSprites(sprites, spriteHeight, backgroundColor, q) ==
    { i \in 1..Len(sprites) :
        /\ q[1] >= sprites[i].x /\ q[1] < sprites[i].x + SpriteWidth
        /\ q[2] >= sprites[i].y /\ q[2] < sprites[i].y + spriteHeight
        /\ sprites[i].pixels[<<q[1] - sprites[i].x, q[2] - sprites[i].y>>] # backgroundColor }

SpritePixelIndex(s, palettes, q) ==
    BitOr(s.p * 4, IndexInPalette(palettes[s.p + 1], s.pixels[<<q[1] - s.x, q[2] - s.y>>])) % 256

LastOf(S) == CHOOSE j \in S : \A k \in S : k <= j

DrawSprites(img, sprites, palettes, spriteHeight, backgroundColor) ==
    [img EXCEPT !.at =
        [q \in Coords(img.w, img.h) |->
            IF InkingSprites(sprites, spriteHeight, backgroundColor, q) = {} THEN 0
            ELSE SpritePixelIndex(
                    sprites[LastOf(InkingSprites(sprites, spriteHeight, backgroundColor, q))],
                    palettes, q)]]

OutputImageOverlayFree(mm) ==
    DrawSprites(mm.mOutputImageOverlayFree, SpritesOverlayFree(mm), mm.mPalettes,
                mm.mSpriteHeight, mm.mBackgroundColor)

\* A variant of the merge in which grid sprites cover free sprites.
MergeLayersGridFirst(background, overlayGrid, overlayFree) ==
    [background EXCEPT !.at =
        [q \in Coords(background.w, background.h) |->
            IF overlayGrid.at[q] # 0 THEN overlayGrid.at[q]
            ELSE IF overlayFree.at[q] # 0 THEN overlayFree.at[q]
            ELSE background.at[q]]]

\* outputImage: free sprites over grid sprites over background.
MergeLayers(background, overlayGrid, overlayFree) ==
    [background EXCEPT !.at =
        [q \in Coords(background.w, background.h) |->
            IF overlayFree.at[q] # 0 THEN overlayFree.at[q]
            ELSE IF overlayGrid.at[q] # 0 THEN overlayGrid.at[q]
            ELSE IF background.at[q] # 0 THEN background.at[q]
            ELSE 0]]

OutputImage(mm) ==
    MergeLayers(OutputImageBackground(mm), OutputImageOverlayGrid(mm),
                OutputImageOverlayFree(mm))

\* getMaxSpritesPerScanline: every sprite adds one to each scanline from
\* s.y to s.y + spriteHeight - 1 that lies inside the image.
RECURSIVE CountScanlines(_, _, _, _)
CountScanlines(numSpritesPerScanline, sprites, spriteHeight, k) ==
    IF k > Len(sprites) THEN numSpritesPerScanline
    ELSE CountScanlines(
            [y \in DOMAIN numSpritesPerScanline |->
                IF y >= sprites[k].y /\ y < sprites[k].y + spriteHeight
                THEN numSpritesPerScanline[y] + 1 ELSE numSpritesPerScanline[y]],
            sprites, spriteHeight, k + 1)

\* A variant of getMaxSpritesPerScanline that counts no sprite.
NoSpritesPerScanline(mm, sprites) == 0

MaxElement(counts) ==
    CHOOSE n \in { counts[y] : y \in DOMAIN counts } : \A y \in DOMAIN counts : counts[y] <= n

GetMaxSpritesPerScanline(mm, sprites) ==
    MaxElement(CountScanlines([y \in 0..(OutputImage(mm).h - 1) |-> 0], sprites,
                              mm.mLayerOverlay.cellHeight, 1))

\* A variant of convertFirstPassNoBG that leaves the cells' colours in the
\* background layer.
ConvertFirstPassNoBGKeepsBackground(gridCellColorLimit, maxSpritePalettes, maxRowSize, layer, layerBackground, layerOverlay, paletteIndicesBackground) ==
    [ok |-> TRUE,
     layerBackground |-> [layerBackground EXCEPT !.colors = layer.colors],
     layerOverlay |-> layerOverlay,
     paletteIndicesBackground |-> paletteIndicesBackground]

\* ------------------------------------------------------------------------
\* convertFirstPassNoBG: every cell goes to the overlay layer, the
\* background layer is emptied; the result is the budget check.
ConvertFirstPassNoBG(gridCellColorLimit, maxSpritePalettes, maxRowSize, layer, layerBackground, layerOverlay, paletteIndicesBackground) ==
    LET cells == Coords(layer.w, layer.h)
        colors == LayerColors(layer)
        numCellsInRow(y) == Cardinality({ x \in 0..(layer.w - 1) : layer.colors[<<x, y>>] # {} })
        maxCellsInRow == IF layer.h = 0 THEN 0
                         ELSE CHOOSE n \in { numCellsInRow(y) : y \in 0..(layer.h - 1) } :
                                 \A y \in 0..(layer.h - 1) : numCellsInRow(y) <= n
        newBackground == [layerBackground EXCEPT !.colors = [c \in cells |-> {}]]
        maxColorsOverlay == maxSpritePalettes * gridCellColorLimit
    IN [ok |-> Cardinality(colors) <= maxColorsOverlay /\ maxCellsInRow <= maxRowSize,
        layerBackground |-> newBackground,
        layerOverlay |-> [layerOverlay EXCEPT !.colors = [c \in cells |-> layer.colors[c]]],
        paletteIndicesBackground |->
            SetEmptyPaletteIndices(paletteIndicesBackground, newBackground, 0)]

\* convertFirstPass after the solver has run: the exit-code check of
\* runCmplProgram, the decoding and setEmptyPaletteIndices.
Thrown(kind, msg) == [kind |-> kind, msg |-> msg]
Returned(status) == [kind |-> "status", msg |-> status]
NoResult == [kind |-> "none", msg |-> ""]

ConvertFirstPass(l, run) ==
    IF run.exitCode # 0
    THEN [threw |-> Thrown("Error", "Non-zero exit code from CMPL"), loc |-> l]
    ELSE LET parsed == ParseCmplSolution(run.file, l.palettes, l.layerBackground,
                                         l.layerOverlay, l.paletteIndicesBackground, FALSE)
         IN IF parsed.err # ""
            THEN [threw |-> Thrown("runtime_error", parsed.err), loc |-> l]
            ELSE [threw |-> NoResult,
                  loc |-> [l EXCEPT
                      !.palettes = parsed.palettes,
                      !.layerBackground = parsed.colorsBackground,
                      !.layerOverlay = parsed.colorsOverlay,
                      !.paletteIndicesBackground =
                          SetEmptyPaletteIndices(parsed.paletteIndices,
                                                 parsed.colorsBackground, 0)]]

\* convert, from the refinement of the first pass to the layer split.
RefineFirstPass(a, l) ==
    LET moved == OptimizeUnnecessaryOverlayColors(l.layerBackground, l.layerOverlay,
                                                  l.paletteIndicesBackground, l.palettes)
        merged == OptimizeUnnecessaryPalettes(l.paletteIndicesBackground, 0, l.palettes,
                                              a.gridCellColorLimit)
        palettes == FillMissingPaletteGroups(merged.palettes, NumBackgroundPalettes)
        split == MoveOverlayColors(a.image, l.imageBackground, l.imageOverlay,
                                   moved.layerOverlay, a.backgroundColor)
    IN [l EXCEPT
          !.layerBackground = moved.layerBackground,
          !.layerOverlay = moved.layerOverlay,
          !.palettes = palettes,
          !.imageBackground = split.imageBackground,
          !.imageOverlay = split.imageOverlay,
          !.paletteIndicesBackground =
              OptimizeContinuity(moved.layerBackground, merged.paletteIndices, palettes)]

\* A variant of the early-exit test that ignores maxSpritePalettes.
EarlyExitOnEmptyOverlayOnly(a, l) == ImageEmpty(l.imageOverlay, a.backgroundColor)

\* convert: "if no colors were moved into overlay we are done"
EarlyExit(a, l) ==
    ImageEmpty(l.imageOverlay, a.backgroundColor) \/ a.maxSpritePalettes = 0

AppendEmptyPalettes(palettes, n) == palettes \o [i \in 1..n |-> {}]

\* convertSecondPass: the limits it writes, and what it does once the
\* solver has run.
SecondPassProblem(a, layer, maxSpritesPerScanline) ==
    WriteCmplDataFile(layer, a.gridCellColorLimit, 0, a.maxSpritePalettes,
                      2 * maxSpritesPerScanline)

ConvertSecondPass(l, run) ==
    IF run.exitCode # 0
    THEN [threw |-> Thrown("Error", "Non-zero exit code from CMPL"), loc |-> l]
    ELSE LET parsed == ParseCmplSolution(run.file, <<>>, l.layerOverlayGrid,
                                         l.layerOverlayFree, l.paletteIndicesOverlay, TRUE)
         IN IF parsed.err # ""
            THEN [threw |-> Thrown("runtime_error", parsed.err), loc |-> l]
            ELSE [threw |-> NoResult,
                  loc |-> [l EXCEPT
                      !.layerOverlayGrid = parsed.colorsBackground,
                      !.layerOverlayFree = parsed.colorsOverlay,
                      !.paletteIndicesOverlay =
                          SetEmptyPaletteIndices(parsed.paletteIndices,
                                                 parsed.colorsBackground,
                                                 NumBackgroundPalettes),
                      !.palettes = l.palettes \o parsed.palettes]]

RefineSecondPass(a, l) ==
    LET moved == OptimizeUnnecessaryOverlayColors(l.layerOverlayGrid, l.layerOverlayFree,
                                                  l.paletteIndicesOverlay, l.palettes)
        merged == OptimizeUnnecessaryPalettes(l.paletteIndicesOverlay, NumBackgroundPalettes,
                                              l.palettes, a.gridCellColorLimit)
        palettes == FillMissingPaletteGroups(merged.palettes,
                                             NumBackgroundPalettes + NumSpritePalettes)
        split == MoveOverlayColors(l.imageOverlay, l.imageOverlayGrid, l.imageOverlayFree,
                                   moved.layerOverlay, a.backgroundColor)
    IN [l EXCEPT
          !.layerOverlayGrid = moved.layerBackground,
          !.layerOverlayFree = moved.layerOverlay,
          !.palettes = palettes,
          !.imageOverlayGrid = split.imageBackground,
          !.imageOverlayFree = split.imageOverlay,
          !.paletteIndicesOverlay =
              OptimizeContinuity(moved.layerBackground, merged.paletteIndices, palettes)]

\* ------------------------------------------------------------------------
\* State
VARIABLES
    pc,             \* convert: "idle", "pass1", "refine1", "pass2", "refine2",
                    \* "returned", "threw"
    arg,            \* the arguments of the convert call
    loc,            \* the local variables of convert
    m,              \* the optimiser's members
    result,         \* the status convert returned, or the error it threw
    solverLog,      \* the solver invocations of the call, oldest first
    decPc,          \* decoder run: "ready" before, "done" after parseCmplSolution
    decFile,        \* the solution file given to the decoder
    decSecondPass,  \* the decoder's secondPass argument
    decResult,      \* the decoder's outputs and error after the run
    adjPc,          \* adjacency optimiser run: "ready" before, "done" after
    adjSprites,     \* the sprite list given to the adjacency optimiser
    adjResult,      \* the sprite list it returned
    fnPc,           \* single-function run: "ready" before, "done" after the call
    fnArgs,         \* the arguments of the function under study
    fnResult        \* what the function returned

decVars == <<decPc, decFile, decSecondPass, decResult>>
adjVars == <<adjPc, adjSprites, adjResult>>
convVars == <<pc, arg, loc, m, result, solverLog>>
fnVars == <<fnPc, fnArgs, fnResult>>
vars == <<convVars, decVars, adjVars, fnVars>>

\* ------------------------------------------------------------------------
\* The optimiser after construction, before any convert call.
NoImage == Image2D(0, 0, 0)
NoLayer == BlankGridLayer(0, 0, 0, 0)

NoArg ==
    [image |-> NoImage, backgroundColor |-> 0, gridCellWidth |-> 0, gridCellHeight |-> 0,
     spriteHeight |-> 0, gridCellColorLimit |-> 0, maxBackgroundPalettes |-> 0,
     maxSpritePalettes |-> 0, maxSpritesPerScanline |-> 0, timeOut |-> 0]

NoLocals ==
    [imageBackground |-> NoImage, imageOverlay |-> NoImage,
     imageOverlayGrid |-> NoImage, imageOverlayFree |-> NoImage,
     layer |-> NoLayer, layerBackground |-> NoLayer, layerOverlay |-> NoLayer,
     paletteIndicesBackground |-> NoImage, palettes |-> <<>>, maxRowSize |-> 0,
     layerOverlayGrid |-> NoLayer, layerOverlayFree |-> NoLayer,
     paletteIndicesOverlay |-> NoImage]

Constructed ==
    [mBackgroundColor |-> 0, mSpriteHeight |-> 16,
     mOutputImage |-> NoImage, mOutputImageBackground |-> NoImage,
     mOutputImageOverlay |-> NoImage, mOutputImageOverlayGrid |-> NoImage,
     mOutputImageOverlayFree |-> NoImage,
     mLayerBackground |-> NoLayer, mLayerOverlay |-> NoLayer, mLayerOverlayFree |-> NoLayer,
     mPaletteIndicesBackground |-> NoImage, mPaletteIndicesOverlay |-> NoImage,
     mPalettes |-> <<>>]

ConvIdle ==
    /\ pc = "idle"
    /\ arg = NoArg
    /\ loc = NoLocals
    /\ m = Constructed
    /\ result = NoResult
    /\ solverLog = <<>>

\* ------------------------------------------------------------------------
\* convert
ImageWidth == GridW * SpriteWidth
ImageHeight == GridH

\* The images given to convert: every pixel is the background colour or an
\* ink colour, and the ink colours are numbered in the order in which they
\* first appear, row by row.
Before(r, q) == r[2] < q[2] \/ (r[2] = q[2] /\ r[1] < q[1])

Images(w, h) ==
    { [w |-> w, h |-> h, at |-> f] :
        f \in { g \in [Coords(w, h) -> 0..MaxColor] :
                  \A q \in Coords(w, h) :
                     g[q] > 1 => \E r \in Coords(w, h) : Before(r, q) /\ g[r] = g[q] - 1 } }

\* The background cells are a whole number of sprite cells wide, at least two.
GridCellWidths == { k * SpriteWidth : k \in 2..GridW }

Args(images) ==
    { [image |-> i, backgroundColor |-> 0, gridCellWidth |-> cw, gridCellHeight |-> 1,
       spriteHeight |-> 1, gridCellColorLimit |-> k, maxBackgroundPalettes |-> nb,
       maxSpritePalettes |-> ns, maxSpritesPerScanline |-> sl, timeOut |-> 0] :
        i \in images,
        cw \in { c \in GridCellWidths : ImageWidth % c = 0 },
        k \in 1..MaxCellColorLimit,
        nb \in 0..NumBackgroundPalettes,
        ns \in 0..NumSpritePalettes,
        sl \in 0..MaxScanlineLimit }

\* convert, up to the first pass: the locals are constructed and the
\* output members are reset to blank values.
ConvertCall(a) ==
    /\ LET w == a.image.w
           h == a.image.h
           layer == ImageGridLayer(a.backgroundColor, a.gridCellWidth, a.gridCellHeight, a.image)
           OverlayWidth == w \div SpriteWidth
           OverlayHeight == h \div a.spriteHeight
           blankImage == Image2D(w, h, a.backgroundColor)
           blankOverlay == BlankGridLayer(SpriteWidth, a.spriteHeight, OverlayWidth, OverlayHeight)
       IN /\ loc' = [imageBackground |-> Image2D(w, h, 0),
                     imageOverlay |-> Image2D(w, h, 0),
                     imageOverlayGrid |-> Image2D(w, h, 0),
                     imageOverlayFree |-> Image2D(w, h, 0),
                     layer |-> layer,
                     layerBackground |-> BlankGridLayer(layer.cellWidth, layer.cellHeight,
                                                        layer.w, layer.h),
                     layerOverlay |-> BlankGridLayer(layer.cellWidth, layer.cellHeight,
                                                     layer.w, layer.h),
                     paletteIndicesBackground |-> Array2D(layer.w, layer.h, 0),
                     palettes |-> <<>>,
                     maxRowSize |-> ((4 * SpriteWidth) \div a.gridCellWidth) * a.maxSpritesPerScanline,
                     layerOverlayGrid |-> blankOverlay,
                     layerOverlayFree |-> blankOverlay,
                     paletteIndicesOverlay |-> Array2D(OverlayWidth, OverlayHeight, 0)]
          /\ m' = [m EXCEPT
                     !.mBackgroundColor = a.backgroundColor,
                     !.mSpriteHeight = a.spriteHeight,
                     !.mOutputImage = blankImage,
                     !.mOutputImageBackground = blankImage,
                     !.mOutputImageOverlay = blankImage,
                     !.mOutputImageOverlayGrid = blankImage,
                     !.mOutputImageOverlayFree = blankImage,
                     !.mLayerOverlay = blankOverlay,
                     !.mLayerOverlayFree = blankOverlay,
                     !.mPaletteIndicesBackground = Array2D(layer.w, layer.h, 0),
                     !.mPaletteIndicesOverlay = Array2D(OverlayWidth, OverlayHeight, 0)]
    /\ arg' = a
    /\ pc' = "pass1"
    /\ result' = NoResult
    /\ solverLog' = <<>>
    /\ UNCHANGED <<decVars, adjVars, fnVars>>

\* convert after a first pass that did not throw: refinement, layer split,
\* and either the early return or the hand-over to the second pass.
AfterFirstPass(l0) ==
    LET l == RefineFirstPass(arg, l0)
        stored == [m EXCEPT !.mOutputImageBackground = l.imageBackground,
                            !.mLayerBackground = l.layerBackground]
    IN /\ loc' = l
       /\ IF EarlyExit(arg, l)
          THEN /\ m' = [stored EXCEPT
                          !.mOutputImage = arg.image,
                          !.mPaletteIndicesBackground = l.paletteIndicesBackground,
                          !.mPalettes = AppendEmptyPalettes(l.palettes, NumSpritePalettes)]
               /\ pc' = "returned"
               /\ result' = IF ImageEmpty(l.imageOverlay, arg.backgroundColor)
                            THEN Returned("")
                            ELSE Returned("Sprite palettes required.")
          ELSE /\ m' = stored
               /\ pc' = "pass2"
               /\ result' = NoResult

\* A variant of the error exit that starts the call's first pass again.
RetryFirstPass(e) ==
    /\ pc' = "pass1"
    /\ result' = e
    /\ UNCHANGED <<loc, m>>

Throw(e) ==
    /\ pc' = "threw"
    /\ result' = e
    /\ UNCHANGED <<loc, m>>

\* A pass has returned true: its outputs are in the locals.
PassDone(l, next) ==
    /\ loc' = l
    /\ pc' = next
    /\ UNCHANGED <<m, result>>

\* The first pass with maxBackgroundPalettes = 0: no solver.
FirstPassNoBG ==
    /\ pc = "pass1"
    /\ arg.maxBackgroundPalettes = 0
    /\ LET r == ConvertFirstPassNoBG(arg.gridCellColorLimit, arg.maxSpritePalettes,
                                     loc.maxRowSize, loc.layer, loc.layerBackground,
                                     loc.layerOverlay, loc.paletteIndicesBackground)
       IN IF r.ok
          THEN PassDone([loc EXCEPT
                           !.layerBackground = r.layerBackground,
                           !.layerOverlay = r.layerOverlay,
                           !.paletteIndicesBackground = r.paletteIndicesBackground],
                        "refine1")
          ELSE Throw(Thrown("Error", "First pass of no-background conversion failed."))
    /\ UNCHANGED <<arg, solverLog>>
    /\ UNCHANGED <<decVars, adjVars, fnVars>>

\* The first pass through the solver.
FirstPassSolver ==
    /\ pc = "pass1"
    /\ arg.maxBackgroundPalettes # 0
    /\ LET problem == WriteCmplDataFile(loc.layer, arg.gridCellColorLimit,
                                        arg.maxBackgroundPalettes, arg.maxSpritePalettes,
                                        loc.maxRowSize)
       IN /\ solverLog' = Append(solverLog, [pass |-> 1, timeOut |-> arg.timeOut,
                                             problem |-> problem])
          /\ \E run \in SolverRuns(loc.layer, problem, FALSE) :
                LET r == ConvertFirstPass(loc, run)
                IN IF r.threw = NoResult
                   THEN PassDone(r.loc, "refine1")
                   ELSE Throw(r.threw)
    /\ UNCHANGED arg
    /\ UNCHANGED <<decVars, adjVars, fnVars>>

FirstPassRefine ==
    /\ pc = "refine1"
    /\ AfterFirstPass(loc)
    /\ UNCHANGED <<arg, solverLog>>
    /\ UNCHANGED <<decVars, adjVars, fnVars>>

\* convert from the second pass to its return.
AfterSecondPass(l0) ==
    LET l == RefineSecondPass(arg, l0)
        stored == [m EXCEPT
                     !.mLayerBackground = l.layerBackground,
                     !.mLayerOverlay = l.layerOverlayGrid,
                     !.mLayerOverlayFree = l.layerOverlayFree,
                     !.mPaletteIndicesBackground = l.paletteIndicesBackground,
                     !.mPaletteIndicesOverlay = l.paletteIndicesOverlay,
                     !.mOutputImage = arg.image,
                     !.mOutputImageOverlayGrid = l.imageOverlayGrid,
                     !.mOutputImageOverlayFree = l.imageOverlayFree,
                     !.mPalettes = l.palettes]
    IN /\ loc' = l
       /\ m' = stored
       /\ pc' = "returned"
       /\ result' = IF GetMaxSpritesPerScanline(stored, SpritesOverlay(stored))
                         > arg.maxSpritesPerScanline
                    THEN Returned("Too many sprites / scanline")
                    ELSE Returned("")

SecondPass ==
    /\ pc = "pass2"
    /\ LET OverlayWidth == arg.image.w \div SpriteWidth
           OverlayHeight == arg.image.h \div arg.spriteHeight
           layerOverlay == ImageGridLayer(arg.backgroundColor, SpriteWidth, arg.spriteHeight,
                                          loc.imageOverlay)
           blank == BlankGridLayer(SpriteWidth, arg.spriteHeight, OverlayWidth, OverlayHeight)
           l == [loc EXCEPT !.layerOverlay = layerOverlay,
                            !.layerOverlayGrid = blank,
                            !.layerOverlayFree = blank,
                            !.paletteIndicesOverlay = Array2D(OverlayWidth, OverlayHeight, 0)]
           problem == SecondPassProblem(arg, layerOverlay, 4 * arg.maxSpritesPerScanline)
       IN /\ solverLog' = Append(solverLog, [pass |-> 2, timeOut |-> arg.timeOut,
                                             problem |-> problem])
          /\ \E run \in SolverRuns(layerOverlay, problem, TRUE) :
                LET r == ConvertSecondPass(l, run)
                IN IF r.threw = NoResult
                   THEN PassDone(r.loc, "refine2")
                   ELSE Throw(r.threw)
    /\ UNCHANGED arg
    /\ UNCHANGED <<decVars, adjVars, fnVars>>

SecondPassRefine ==
    /\ pc = "refine2"
    /\ AfterSecondPass(loc)
    /\ UNCHANGED <<arg, solverLog>>
    /\ UNCHANGED <<decVars, adjVars, fnVars>>

DecIdle ==
    /\ decPc = "off"
    /\ decFile = <<>>
    /\ decSecondPass = FALSE
    /\ decResult = [err |-> "", value |-> 0, palettes |-> <<>>,
                    colorsBackground |-> NoLayer, colorsOverlay |-> NoLayer,
                    paletteIndices |-> NoImage]

AdjIdle ==
    /\ adjPc = "off"
    /\ adjSprites = <<>>
    /\ adjResult = <<>>

FnIdle ==
    /\ fnPc = "off"
    /\ fnArgs = <<>>
    /\ fnResult = <<>>

Convert ==
    /\ pc = "idle"
    /\ \E a \in Args(Images(ImageWidth, ImageHeight)) : ConvertCall(a)

Init == ConvIdle /\ DecIdle /\ AdjIdle /\ FnIdle

Next ==
    \/ Convert
    \/ FirstPassNoBG
    \/ FirstPassSolver
    \/ FirstPassRefine
    \/ SecondPass
    \/ SecondPassRefine

Spec == Init /\ [][Next]_vars

\* ------------------------------------------------------------------------
\* The decoder on its own: parseCmplSolution applied to bounded files, with
\* the outputs its callers pass in (an empty palette list, blank layers and
\* a zeroed palette-index grid, here of one cell).
DecBefore ==
    [err |-> "", value |-> 0, palettes |-> <<>>,
     colorsBackground |-> BlankGridLayer(SpriteWidth, 1, 1, 1),
     colorsOverlay |-> BlankGridLayer(SpriteWidth, 1, 1, 1),
     paletteIndices |-> Array2D(1, 1, 0)]

VarNames ==
    { f[s] : f \in {[b \in BOOLEAN |-> ColorsBackgroundPrefix(b)],
                    [b \in BOOLEAN |-> ColorsOverlayPrefix(b)],
                    [b \in BOOLEAN |-> PalettesNamePrefix(b)],
                    [b \in BOOLEAN |-> UsesPalettePrefix(b)]},
             s \in BOOLEAN }

DecIdx(name) ==
    IF name \in {PalettesNamePrefix(TRUE), PalettesNamePrefix(FALSE)}
    THEN <<1, 1>>
    ELSE IF name \in {UsesPalettePrefix(TRUE), UsesPalettePrefix(FALSE)}
    THEN <<0, 0, 1>>
    ELSE <<0, 0, 1>>

DecVarLines ==
    { VarLine(n, DecIdx(n), t, v) : n \in VarNames, t \in {"B", "I"}, v \in {0, 1} }

DecFirstLines == {HeaderLine, NoSolutionLine, OtherLine}
DecLaterLines == DecVarLines \cup {NoSolutionLine, NoSolutionMidLine, OtherLine}

DecInit ==
    /\ ConvIdle
    /\ AdjIdle
    /\ FnIdle
    /\ decPc = "ready"
    /\ \E n \in 0..(MaxFileLines - 1) :
          \E first \in DecFirstLines, rest \in [1..n -> DecLaterLines] :
             decFile = <<first>> \o rest
    /\ decSecondPass \in BOOLEAN
    /\ decResult = DecBefore

Decode ==
    /\ decPc = "ready"
    /\ decResult' = ParseCmplSolution(decFile, DecBefore.palettes,
                                      DecBefore.colorsBackground,
                                      DecBefore.colorsOverlay,
                                      DecBefore.paletteIndices, decSecondPass)
    /\ decPc' = "done"
    /\ UNCHANGED <<decFile, decSecondPass>>
    /\ UNCHANGED <<convVars, adjVars, fnVars>>

DecNext == Decode

SpecDecode == DecInit /\ [][DecNext]_vars

\* ------------------------------------------------------------------------
\* The adjacency optimiser on its own: spritesOverlay's last two steps (the
\* blank-column counts, then optimizeHorizontallyAdjacentSprites) applied to
\* bounded sprite lists of one-row sprites.  Every sprite after the first is
\* placed relative to its predecessor: one sprite width to the right, one
\* pixel to the right, at the start of the next row, or one sprite width to
\* the right with another palette.
AdjBlocks == [Coords(SpriteWidth, 1) -> 0..1]

MakeSprite(x, y, p, pixels) ==
    [x |-> x, y |-> y, p |-> p, pixels |-> pixels,
     colors |-> { pixels[q] : q \in DOMAIN pixels } \ {0},
     numBlankPixelsLeft |-> 0, numBlankPixelsRight |-> 0]

AdjPlacements == {"adjacent", "shifted", "row", "palette"}

PlaceAfter(previous, placement, pixels) ==
    IF placement = "adjacent"
    THEN MakeSprite(previous.x + SpriteWidth, previous.y, previous.p, pixels)
    ELSE IF placement = "shifted"
    THEN MakeSprite(previous.x + 1, previous.y, previous.p, pixels)
    ELSE IF placement = "row"
    THEN MakeSprite(0, previous.y + 1, previous.p, pixels)
    ELSE MakeSprite(previous.x + SpriteWidth, previous.y,
                    IF previous.p = NumBackgroundPalettes
                    THEN NumBackgroundPalettes + 1 ELSE NumBackgroundPalettes,
                    pixels)

RECURSIVE AdjList(_, _, _)
AdjList(placements, blocks, n) ==
    IF n = 0 THEN <<>>
    ELSE IF n = 1 THEN <<MakeSprite(0, 0, NumBackgroundPalettes, blocks[1])>>
    ELSE Append(AdjList(placements, blocks, n - 1),
                PlaceAfter(AdjList(placements, blocks, n - 1)[n - 1], placements[n], blocks[n]))

AdjInit ==
    /\ ConvIdle
    /\ DecIdle
    /\ FnIdle
    /\ adjPc = "ready"
    /\ \E n \in 0..MaxSprites :
          \E placements \in [2..n -> AdjPlacements], blocks \in [1..n -> AdjBlocks] :
             adjSprites = AdjList(placements, blocks, n)
    /\ adjResult = <<>>

Optimize ==
    /\ adjPc = "ready"
    /\ adjResult' = OptimizeHorizontallyAdjacentSprites(WithBlankCounts(adjSprites, 1, 0))
    /\ adjPc' = "done"
    /\ UNCHANGED adjSprites
    /\ UNCHANGED <<convVars, decVars, fnVars>>

AdjNext == Optimize

SpecAdj == AdjInit /\ [][AdjNext]_vars

\* ------------------------------------------------------------------------
\* Single functions on their own.  Each specification below draws the
\* arguments of one function from bounded sets and applies the function once.
OthersIdle == ConvIdle /\ DecIdle /\ AdjIdle

FnCall(out) ==
    /\ fnPc = "ready"
    /\ fnResult' = out
    /\ fnPc' = "done"
    /\ UNCHANGED fnArgs
    /\ UNCHANGED <<convVars, decVars, adjVars>>

\* extractSpriteWithBestPalette at the block (0, 0) of an image one sprite
\* wide, with removal, for every palette list of the hardware's length.
PaletteSets == SUBSET (1..MaxColor)

BestInit ==
    /\ OthersIdle
    /\ fnPc = "ready"
    /\ \E palettes \in [1..(NumBackgroundPalettes + NumSpritePalettes) -> PaletteSets],
          at \in [Coords(SpriteWidth, 1) -> 0..MaxColor] :
          fnArgs = [palettes |-> palettes,
                    overlayImage |-> [w |-> SpriteWidth, h |-> 1, at |-> at]]
    /\ fnResult = <<>>

ExtractBest ==
    FnCall(ExtractSpriteWithBestPalette(fnArgs.palettes, 0, fnArgs.overlayImage,
                                        0, 0, SpriteWidth, 1, TRUE))

SpecBest == BestInit /\ [][ExtractBest]_vars

\* outputImage's merge loop on three layers of its own choosing.  The assert
\* of line 776 is compiled in or out with the build; when it is compiled in
\* and fails, the call aborts and returns no image.
MergeAssertFails(background, overlayGrid, overlayFree) ==
    \E q \in Coords(background.w, background.h) :
        background.at[q] # 0 /\ overlayGrid.at[q] # 0 /\ overlayFree.at[q] # 0

OutputImageOf(background, overlayGrid, overlayFree, assertsOn) ==
    IF assertsOn /\ MergeAssertFails(background, overlayGrid, overlayFree)
    THEN [aborted |-> TRUE, image |-> NoImage]
    ELSE [aborted |-> FALSE, image |-> MergeLayers(background, overlayGrid, overlayFree)]

MergeLayerImages ==
    { [w |-> SpriteWidth, h |-> 1, at |-> f] : f \in [Coords(SpriteWidth, 1) -> 0..MaxColor] }

MergeInit ==
    /\ OthersIdle
    /\ fnPc = "ready"
    /\ \E b \in MergeLayerImages, g \in MergeLayerImages, f \in MergeLayerImages,
          a \in BOOLEAN :
          fnArgs = [background |-> b, overlayGrid |-> g, overlayFree |-> f, assertsOn |-> a]
    /\ fnResult = <<>>

Merge ==
    FnCall(OutputImageOf(fnArgs.background, fnArgs.overlayGrid, fnArgs.overlayFree,
                         fnArgs.assertsOn))

SpecMerge == MergeInit /\ [][Merge]_vars

\* runCmplProgram on its own: the program text it writes for the solver and
\* the error it raises on a non-zero exit code.  A line of text is a record
\* so that the directive line can carry its number.
ProgramLine(text) == [text |-> text, value |-> 0]

TimeOutDirective(timeOut) == [text |-> "%opt cbc seconds", value |-> timeOut]

\* "if(timeOut)": true for every non-zero int.
PrependsDirective(timeOut) == timeOut # 0

RunCmplProgram(inputFileStr, timeOut, exitCode) ==
    [outputFile |-> IF PrependsDirective(timeOut)
                    THEN <<TimeOutDirective(timeOut)>> \o inputFileStr
                    ELSE inputFileStr,
     threw |-> IF exitCode # 0
               THEN Thrown("Error", "Non-zero exit code from CMPL")
               ELSE NoResult]

ProgramLines == { ProgramLine(t) : t \in {"parameters:", "variables:", "constraints:"} }

GatewayInit ==
    /\ OthersIdle
    /\ fnPc = "ready"
    /\ \E n \in 0..MaxProgramLines :
          \E text \in [1..n -> ProgramLines], t \in (-MaxTimeOut)..MaxTimeOut,
             e \in {0, 1} :
             fnArgs = [inputFileStr |-> text, timeOut |-> t, exitCode |-> e]
    /\ fnResult = <<>>

RunGateway ==
    FnCall(RunCmplProgram(fnArgs.inputFileStr, fnArgs.timeOut, fnArgs.exitCode))

SpecGateway == GatewayInit /\ [][RunGateway]_vars

\* Several convert calls on one optimiser: a new call may start whenever the
\* previous one has returned or thrown.  The calls draw their arguments from
\* images with ink in the first sprite cell only, one colour per cell, at
\* most one palette of either kind and one sprite per scanline.
SeqImages(w, h) ==
    { i \in Images(w, h) : \A q \in Coords(w, h) : q[1] >= SpriteWidth => i.at[q] = 0 }

SeqArgs(images) ==
    { a \in Args(images) :
        /\ a.gridCellColorLimit = 1
        /\ a.maxSpritesPerScanline = 1
        /\ a.maxBackgroundPalettes <= 1
        /\ a.maxSpritePalettes <= 1 }

ConvertSeq ==
    /\ pc \in {"idle", "returned", "threw"}
    /\ \E a \in SeqArgs(SeqImages(ImageWidth, ImageHeight)) : ConvertCall(a)

SeqNext ==
    \/ ConvertSeq
    \/ FirstPassNoBG
    \/ FirstPassSolver
    \/ FirstPassRefine
    \/ SecondPass
    \/ SecondPassRefine

SpecSeq == Init /\ [][SeqNext]_vars

\* moveOverlayColors on its own, called as convert calls it: two output
\* images of the input's size, and an overlay layer of as many whole cells
\* as fit into the image (convert: OverlayWidth = image.width() /
\* OverlayGridCellWidth), each cell with any set of overlay colours.
SplitInit ==
    /\ OthersIdle
    /\ fnPc = "ready"
    /\ \E w \in SpriteWidth..(SpriteWidth + MaxExtraPixels) :
          \E at \in [Coords(w, 1) -> 0..MaxColor],
             colors \in [Coords(w \div SpriteWidth, 1) -> SUBSET (1..MaxColor)] :
             fnArgs = [inputImage |-> [w |-> w, h |-> 1, at |-> at],
                       layerOverlay |->
                           [BlankGridLayer(SpriteWidth, 1, w \div SpriteWidth, 1)
                               EXCEPT !.colors = colors],
                       backgroundColor |-> 0]
    /\ fnResult = <<>>

Split ==
    FnCall(MoveOverlayColors(fnArgs.inputImage,
                             Image2D(fnArgs.inputImage.w, fnArgs.inputImage.h, 0),
                             Image2D(fnArgs.inputImage.w, fnArgs.inputImage.h, 0),
                             fnArgs.layerOverlay, fnArgs.backgroundColor))

SpecSplit == SplitInit /\ [][Split]_vars

\* The remapping on its own: one cell (remapColors) and one free sprite
\* (the drawing loop of outputImageOverlayFree), each with one ink pixel of a
\* chosen colour followed by background pixels, drawn with a chosen palette
\* index.  Every palette of the list holds the same colours, at most
\* MaxPaletteColors of them.
RemapCell(palettes, p, color) ==
    RemapColors([w |-> SpriteWidth, h |-> 1,
                 at |-> [q \in Coords(SpriteWidth, 1) |-> IF q[1] = 0 THEN color ELSE 0]],
                BlankGridLayer(SpriteWidth, 1, 1, 1), palettes, Array2D(1, 1, p))

RemapFreeSprite(palettes, p, color) ==
    DrawSprites(Image2D(SpriteWidth, 1, 0),
                <<MakeSprite(0, 0, p, [q \in Coords(SpriteWidth, 1) |->
                                          IF q[1] = 0 THEN color ELSE 0])>>,
                palettes, 1, 0)

RemapInit ==
    /\ OthersIdle
    /\ fnPc = "ready"
    /\ \E palette \in SUBSET (1..MaxPaletteColors) :
          \E p \in [1..2 -> 0..(NumBackgroundPalettes + NumSpritePalettes - 1)],
             color \in [1..2 -> palette] :
             fnArgs = [palettes |-> [i \in 1..(NumBackgroundPalettes + NumSpritePalettes)
                                       |-> palette],
                       p |-> p, color |-> color]
    /\ fnResult = <<>>

Remap ==
    FnCall([grid |-> [k \in 1..2 |-> RemapCell(fnArgs.palettes, fnArgs.p[k], fnArgs.color[k])],
            free |-> [k \in 1..2 |-> RemapFreeSprite(fnArgs.palettes, fnArgs.p[k],
                                                    fnArgs.color[k])]])

SpecRemap == RemapInit /\ [][Remap]_vars

\* convert called with more background palettes than the hardware has:
\* maxBackgroundPalettes is an int that no statement of convert bounds.
OverArgs(images) ==
    { [a EXCEPT !.maxBackgroundPalettes = NumBackgroundPalettes + 1] :
        a \in { b \in Args(images) :
                  /\ b.maxBackgroundPalettes = NumBackgroundPalettes
                  /\ b.maxSpritePalettes > 0
                  /\ b.maxSpritesPerScanline = 1 } }

ConvertOver ==
    /\ pc = "idle"
    /\ \E a \in OverArgs(SeqImages(ImageWidth, ImageHeight)) : ConvertCall(a)

OverNext ==
    \/ ConvertOver
    \/ FirstPassSolver
    \/ FirstPassRefine
    \/ SecondPass
    \/ SecondPassRefine

SpecOver == Init /\ [][OverNext]_vars

\* spritesOverlayFree step by step, with sprites one row high: the outer
\* while loop ("band"), the for loop over the columns ("column").  fnResult
\* holds the working copy of the image, the sprites found so far and the
\* loop variables x and y.
FreeInit ==
    /\ OthersIdle
    /\ fnPc = "ready"
    /\ \E palettes \in [1..(NumBackgroundPalettes + NumSpritePalettes) -> PaletteSets],
          at \in [Coords(SpriteWidth + MaxExtraPixels, MaxBands) -> 0..MaxColor] :
          /\ palettes[1] \subseteq {1}
          /\ \A i \in 2..NumBackgroundPalettes : palettes[i] = {}
          /\ fnArgs = [palettes |-> palettes,
                       overlayImage |-> [w |-> SpriteWidth + MaxExtraPixels,
                                         h |-> MaxBands, at |-> at]]
    /\ fnResult = <<>>

FreeStep(next, out) ==
    /\ fnResult' = out
    /\ fnPc' = next
    /\ UNCHANGED fnArgs
    /\ UNCHANGED <<convVars, decVars, adjVars>>

FreeBegin ==
    /\ fnPc = "ready"
    /\ FreeStep("band", [overlayImage |-> fnArgs.overlayImage, sprites |-> <<>>,
                         x |-> 0, y |-> 0])

FreeBandStep ==
    /\ fnPc = "band"
    /\ IF fnResult.y < fnResult.overlayImage.h
       THEN FreeStep("column",
                     [fnResult EXCEPT !.x = 0,
                                      !.y = SkipEmptyRows(fnResult.overlayImage, fnResult.y, 0)])
       ELSE FreeStep("done", fnResult)

FreeColumnStepNoSkip ==
    /\ fnPc = "column"
    /\ IF fnResult.x >= fnResult.overlayImage.w
       THEN FreeStep("band", [fnResult EXCEPT !.y = fnResult.y + 1])
       ELSE IF ColumnHasPixels(fnResult.overlayImage, fnResult.x, fnResult.y, 1, 0)
       THEN LET s == ExtractSpriteWithBestPalette(fnArgs.palettes, 0, fnResult.overlayImage,
                                                  fnResult.x, fnResult.y, SpriteWidth, 1, TRUE)
            IN IF s.sprite.colors # {}
               THEN FreeStep("column", [fnResult EXCEPT !.overlayImage = s.image,
                                                        !.sprites = Append(@, s.sprite)])
               ELSE FreeStep("column", fnResult)
       ELSE FreeStep("column", [fnResult EXCEPT !.x = fnResult.x + 1])

FreeColumnStep ==
    /\ fnPc = "column"
    /\ IF fnResult.x >= fnResult.overlayImage.w
       THEN FreeStep("band", [fnResult EXCEPT !.y = fnResult.y + 1])
       ELSE IF ColumnHasPixels(fnResult.overlayImage, fnResult.x, fnResult.y, 1, 0)
       THEN LET s == ExtractSpriteWithBestPalette(fnArgs.palettes, 0, fnResult.overlayImage,
                                                  fnResult.x, fnResult.y, SpriteWidth, 1, TRUE)
            IN IF s.sprite.colors # {}
               THEN FreeStep("column", [fnResult EXCEPT !.overlayImage = s.image,
                                                        !.sprites = Append(@, s.sprite)])
               ELSE FreeStep("column", [fnResult EXCEPT !.x = fnResult.x + 1])
       ELSE FreeStep("column", [fnResult EXCEPT !.x = fnResult.x + 1])

FreeNext == FreeBegin \/ FreeBandStep \/ FreeColumnStep

\* The loops run in one thread that is never suspended: a step that can be
\* taken is taken.
SpecFree == FreeInit /\ [][FreeNext]_vars /\ WF_vars(FreeNext)

\* ------------------------------------------------------------------------
\* Properties
Cells(layer) == Coords(layer.w, layer.h)

Pass1Logged == \E i \in 1..Len(solverLog) : solverLog[i].pass = 1
Pass2Logged == \E i \in 1..Len(solverLog) : solverLog[i].pass = 2

\* The first pass, the refinement and the layer split have completed.
FirstPassDone == pc \in {"pass2", "refine2", "returned"} \/ (pc = "threw" /\ Pass2Logged)

\* C1: after a convert call that returned a status, the colours of every
\* cell of the stored background layer and of the stored grid-aligned
\* overlay layer are a subset of the palette that the global palette list
\* holds at the index the matching palette-index grid gives for the cell.
Contained(layer, paletteIndices, palettes, c) ==
    /\ paletteIndices.at[c] < Len(palettes)
    /\ layer.colors[c] \subseteq palettes[paletteIndices.at[c] + 1]

PixelsInCells(image, layer, backgroundColor) ==
    \A q \in Coords(image.w, image.h) :
        image.at[q] # backgroundColor =>
            image.at[q] \in layer.colors[<<q[1] \div layer.cellWidth,
                                           q[2] \div layer.cellHeight>>]

PixelCellConsistency ==
    pc = "returned" =>
        /\ PixelsInCells(m.mOutputImageBackground, m.mLayerBackground, m.mBackgroundColor)
        /\ PixelsInCells(m.mOutputImageOverlayGrid, m.mLayerOverlay, m.mBackgroundColor)

PixelCellConsistencyWitness ==
    /\ pc = "returned"
    /\ ~ImageEmpty(m.mOutputImageBackground, m.mBackgroundColor)
    /\ ~ImageEmpty(m.mOutputImageOverlayGrid, m.mBackgroundColor)
    /\ ~ImageEmpty(m.mOutputImageOverlayFree, m.mBackgroundColor)

\* C3: in a converted result, at every pixel position at most one of the
\* three remapped layers (background, grid-aligned sprites, free sprites)
\* is non-zero.
NonZeroLayers(background, overlayGrid, overlayFree, q) ==
    (IF background.at[q] # 0 THEN 1 ELSE 0)
    + (IF overlayGrid.at[q] # 0 THEN 1 ELSE 0)
    + (IF overlayFree.at[q] # 0 THEN 1 ELSE 0)

LayerExclusivity ==
    pc = "returned" =>
        \A q \in Coords(m.mOutputImage.w, m.mOutputImage.h) :
            NonZeroLayers(OutputImageBackground(m), OutputImageOverlayGrid(m),
                          OutputImageOverlayFree(m), q) <= 1

LayerExclusivityWitness ==
    /\ pc = "returned"
    /\ \E q \in Coords(m.mOutputImage.w, m.mOutputImage.h) : OutputImageBackground(m).at[q] # 0
    /\ \E q \in Coords(m.mOutputImage.w, m.mOutputImage.h) : OutputImageOverlayGrid(m).at[q] # 0
    /\ \E q \in Coords(m.mOutputImage.w, m.mOutputImage.h) : OutputImageOverlayFree(m).at[q] # 0

\* C4: a convert call with maxBackgroundPalettes = 0, on an image with at
\* most maxSpritePalettes * cellColorLimit ink colours whose busiest grid
\* row has at most maxRowSize cells with ink, completes its first pass
\* without a solver run and without an error; when the first pass has
\* returned, every background cell is empty, every background palette
\* index is 0 and every cell's colours are in the overlay layer.
InkColors(image, backgroundColor) ==
    { image.at[q] : q \in Coords(image.w, image.h) } \ {backgroundColor}

InkCellsInRow(a, y) ==
    Cardinality({ x \in 0..((a.image.w \div a.gridCellWidth) - 1) :
                    \E q \in CellPixels(a.gridCellWidth, a.gridCellHeight, x, y) :
                       a.image.at[q] # a.backgroundColor })

WithinNoBGBudget ==
    /\ Cardinality(InkColors(arg.image, arg.backgroundColor))
          <= arg.maxSpritePalettes * arg.gridCellColorLimit
    /\ \A y \in 0..((arg.image.h \div arg.gridCellHeight) - 1) :
          InkCellsInRow(arg, y) <= loc.maxRowSize

NoBGDegeneratePath ==
    ( /\ pc \notin {"idle", "pass1"}
      /\ arg.maxBackgroundPalettes = 0
      /\ WithinNoBGBudget )
    => /\ pc = "threw" => Pass2Logged
       /\ ~Pass1Logged
       /\ pc = "refine1" =>
             \A c \in Cells(loc.layer) :
                /\ loc.layerBackground.colors[c] = {}
                /\ loc.paletteIndicesBackground.at[c] = 0
                /\ loc.layerOverlay.colors[c] = loc.layer.colors[c]

NoBGDegeneratePathWitness ==
    /\ pc = "refine1"
    /\ arg.maxBackgroundPalettes = 0
    /\ WithinNoBGBudget
    /\ Cardinality(InkColors(arg.image, arg.backgroundColor)) = MaxColor
    /\ solverLog = <<>>

\* C5: a convert call with maxBackgroundPalettes = 0 whose colour budget
\* or row-size budget is exceeded ends by returning a non-empty status,
\* not by raising an error.
NoBGOverBudgetReturnsStatus ==
    ( /\ pc \in {"returned", "threw"}
      /\ arg.maxBackgroundPalettes = 0
      /\ ~WithinNoBGBudget )
    => /\ result.kind = "status"
       /\ result.msg # ""

\* C6: decoding a file with a recognised header and a later line that
\* begins with "No solution has been found" raises the no-solution error
\* and leaves the four decoder outputs as they were before decoding,
\* whatever variable lines precede that line.
NoSolutionLeavesOutputsUntouched ==
    ( /\ decPc = "done"
      /\ Len(decFile) >= 2
      /\ LineContains(decFile[1], HeaderMarker)
      /\ \E k \in 2..Len(decFile) : StartsWith(decFile[k], NoSolutionString) )
    => /\ decResult.err = ErrNoSolution
       /\ DecoderOutputs(decResult) = DecoderOutputs(DecBefore)

\* C7: a file that holds the text "No solution has been found" in any
\* line, the first included, and anywhere within that line, makes the
\* decoder fail with the no-solution error, which differs from the error
\* raised for an unrecognised header.
NoSolutionDetectedAnywhere ==
    ( /\ decPc = "done"
      /\ \E k \in 1..Len(decFile) : LineContains(decFile[k], NoSolutionString) )
    => /\ decResult.err = ErrNoSolution
       /\ decResult.err # ErrHeader

\* C8: once the first-pass layer split has left an overlay image that is
\* all background colour, or when maxSpritePalettes = 0, convert has
\* returned a status without a second solver run; the palette list ends
\* with NumSpritePalettes empty palettes, the overlay layers are blank, the
\* sprite list is empty, and the status is empty exactly when the overlay
\* image is all background colour, and "Sprite palettes required."
\* otherwise.
EarlyExitCase ==
    /\ FirstPassDone
    /\ ImageEmpty(loc.imageOverlay, arg.backgroundColor) \/ arg.maxSpritePalettes = 0

ScanlineLoad(sprites, spriteHeight, y) ==
    Cardinality({ i \in 1..Len(sprites) :
                    sprites[i].y <= y /\ y < sprites[i].y + spriteHeight })

ScanlineLimitExceeded ==
    \E y \in 0..(arg.image.h - 1) :
        ScanlineLoad(SpritesOverlay(m), arg.spriteHeight, y) > arg.maxSpritesPerScanline

ResultsStored ==
    /\ m.mLayerBackground = loc.layerBackground
    /\ m.mLayerOverlay = loc.layerOverlayGrid
    /\ m.mLayerOverlayFree = loc.layerOverlayFree
    /\ m.mPalettes = loc.palettes
    /\ m.mPaletteIndicesBackground = loc.paletteIndicesBackground
    /\ m.mPaletteIndicesOverlay = loc.paletteIndicesOverlay
    /\ m.mOutputImage = arg.image
    /\ m.mOutputImageBackground = loc.imageBackground
    /\ m.mOutputImageOverlayGrid = loc.imageOverlayGrid
    /\ m.mOutputImageOverlayFree = loc.imageOverlayFree

InkPositions(s) ==
    { <<s.x + q[1], s.y + q[2]>> : q \in { r \in DOMAIN s.pixels : s.pixels[r] # 0 } }

CoveredBy(sprites, pos, y, p) ==
    \E j \in 1..Len(sprites) :
        /\ sprites[j].y = y
        /\ sprites[j].p = p
        /\ pos[1] >= sprites[j].x /\ pos[1] < sprites[j].x + SpriteWidth
        /\ pos[2] >= sprites[j].y /\ pos[2] < sprites[j].y + 1

AdjacencyMergeSafe ==
    adjPc = "done" =>
        /\ Len(adjResult) <= Len(adjSprites)
        /\ \A i \in 1..Len(adjSprites) :
              \A pos \in InkPositions(adjSprites[i]) :
                 CoveredBy(adjResult, pos, adjSprites[i].y, adjSprites[i].p)

AdjacencyMergeSafeWitness ==
    /\ adjPc = "done"
    /\ Len(adjSprites) = MaxSprites
    /\ Len(adjResult) = Len(adjSprites) - 2
    /\ \A i \in 1..Len(adjSprites) : adjSprites[i].colors # {}
    /\ \E j \in 1..Len(adjResult) : \A i \in 1..Len(adjSprites) :
          adjSprites[i].x # adjResult[j].x \/ adjSprites[i].y # adjResult[j].y

\* ------------------------------------------------------------------------
\* C11: a free sprite extracted at a block gets the sprite palette that
\* retains the most colours of the block, the lowest-indexed one among equals.
SpritePaletteRange ==
    NumBackgroundPalettes..(NumBackgroundPalettes + NumSpritePalettes - 1)

RetainedColors(i) ==
    Cardinality(ExtractSprite(fnArgs.overlayImage, 0, 0, SpriteWidth, 1,
                              fnArgs.palettes[i + 1], 0, FALSE).sprite.colors)

BestPaletteRetainsMost ==
    fnPc = "done" =>
        /\ fnResult.sprite.p \in SpritePaletteRange
        /\ \A i \in SpritePaletteRange :
              /\ RetainedColors(i) <= RetainedColors(fnResult.sprite.p)
              /\ RetainedColors(i) = RetainedColors(fnResult.sprite.p)
                    => fnResult.sprite.p <= i

\* ------------------------------------------------------------------------
\* C12: after a convert call that returned a status, every background
\* palette index lies in [0, NumBackgroundPalettes) and, when pass 2 ran,
\* every sprite palette index lies in [NumBackgroundPalettes,
\* NumBackgroundPalettes + NumSpritePalettes).
BackgroundPaletteRange == 0..(NumBackgroundPalettes - 1)

IndicesWithin(paletteIndices, range) ==
    \A c \in Coords(paletteIndices.w, paletteIndices.h) : paletteIndices.at[c] \in range

LayersByPriority == <<fnArgs.overlayFree, fnArgs.overlayGrid, fnArgs.background>>

TopLayer(q) ==
    IF \A i \in 1..3 : LayersByPriority[i].at[q] = 0 THEN 0
    ELSE LayersByPriority[
            CHOOSE i \in 1..3 :
                /\ LayersByPriority[i].at[q] # 0
                /\ \A j \in 1..(i - 1) : LayersByPriority[j].at[q] = 0].at[q]

MergePriority ==
    (fnPc = "done" /\ ~fnResult.aborted) =>
        \A q \in Coords(fnArgs.background.w, fnArgs.background.h) :
            fnResult.image.at[q] = TopLayer(q)

MergePriorityWitness ==
    /\ fnPc = "done"
    /\ ~fnResult.aborted
    /\ \E q \in Coords(fnArgs.background.w, fnArgs.background.h) :
          /\ fnArgs.overlayFree.at[q] # 0
          /\ fnArgs.overlayGrid.at[q] # 0
          /\ fnArgs.overlayGrid.at[q] # fnArgs.overlayFree.at[q]
    /\ \E q \in Coords(fnArgs.background.w, fnArgs.background.h) :
          /\ fnArgs.overlayFree.at[q] = 0
          /\ fnArgs.overlayGrid.at[q] = 0
          /\ fnArgs.background.at[q] # 0

\* ------------------------------------------------------------------------
\* C14: a pixel at which two or more of the three layers are non-zero makes
\* the merge report an invariant failure.
LayersSetAt(q) == { i \in 1..3 : LayersByPriority[i].at[q] # 0 }

MergeOverlapReported ==
    (/\ fnPc = "done"
     /\ \E q \in Coords(fnArgs.background.w, fnArgs.background.h) :
           Cardinality(LayersSetAt(q)) >= 2)
        => fnResult.aborted

\* ------------------------------------------------------------------------
\* C15: the row-size limit written into the pass-2 problem is 4 times the
\* maxSpritesPerScanline argument of convert, and the pass-2 problem is
\* written with maxBackgroundPalettes = 0.
SecondPassRowSizeLimit ==
    \A i \in 1..Len(solverLog) :
        solverLog[i].pass = 2 =>
            /\ solverLog[i].problem.OVERLAY_ROW_SIZE_LIMIT = 4 * arg.maxSpritesPerScanline
            /\ solverLog[i].problem.MAX_BG_PALETTES = 0

\* ------------------------------------------------------------------------
\* C16: the gateway prepends the time-budget directive exactly when the
\* time-out is positive; for a time-out of 0 or below the program text
\* reaches the solver unchanged.
DirectiveOnlyWhenPositive ==
    fnPc = "done" =>
        IF fnArgs.timeOut > 0
        THEN fnResult.outputFile = <<TimeOutDirective(fnArgs.timeOut)>> \o fnArgs.inputFileStr
        ELSE fnResult.outputFile = fnArgs.inputFileStr

\* ------------------------------------------------------------------------
\* C17: within one convert call the solver is invoked at most once for pass 1
\* and at most once for pass 2, never for pass 1 when maxBackgroundPalettes
\* is 0; the pass-2 invocation happens only once the first pass has been
\* decoded and refined and the layer split is done; and after a non-zero
\* exit code or a no-solution result the call has ended with an error and
\* the solver is not invoked again.
Invocations(pass) == { i \in 1..Len(solverLog) : solverLog[i].pass = pass }

SolverFailures == {"Non-zero exit code from CMPL", "No solution found"}

SplitDone ==
    /\ pc = "pass2"
    /\ loc = RefineFirstPass(arg, loc)
    /\ m.mOutputImageBackground = loc.imageBackground
    /\ m.mLayerBackground = loc.layerBackground

InvokesSolver(pass) ==
    /\ Len(solverLog') = Len(solverLog) + 1
    /\ solverLog'[Len(solverLog')].pass = pass

SolverInvocationOrder ==
    /\ [](/\ Cardinality(Invocations(1)) <= 1
          /\ Cardinality(Invocations(2)) <= 1
          /\ Len(solverLog) = Cardinality(Invocations(1)) + Cardinality(Invocations(2))
          /\ arg.maxBackgroundPalettes = 0 => Invocations(1) = {}
          /\ result.msg \in SolverFailures => pc = "threw")
    /\ [][/\ solverLog' # solverLog => InvokesSolver(1) \/ InvokesSolver(2)
          /\ InvokesSolver(2) => SplitDone
          /\ InvokesSolver(1) => pc = "pass1" /\ solverLog = <<>>
          /\ pc = "threw" => pc' = "threw" /\ solverLog' = solverLog]_vars

SolverInvocationOrderWitness ==
    /\ pc = "threw"
    /\ result.msg = "No solution found"
    /\ Invocations(1) = {1}
    /\ Invocations(2) = {2}

\* ------------------------------------------------------------------------
\* C18: after a convert call has ended, by a return or by an error, every
\* result member is the value the call computed or the blank value the call
\* wrote at its start (or the value the constructor left); nothing computed
\* by an earlier call remains.
BlankImage == Image2D(arg.image.w, arg.image.h, arg.backgroundColor)

BlankOverlay ==
    BlankGridLayer(SpriteWidth, arg.spriteHeight, arg.image.w \div SpriteWidth,
                   arg.image.h \div arg.spriteHeight)

NoStaleResults ==
    pc \in {"returned", "threw"} =>
        /\ m.mOutputImage \in {arg.image, BlankImage}
        /\ m.mOutputImageBackground \in {loc.imageBackground, BlankImage}
        /\ m.mOutputImageOverlay = BlankImage
        /\ m.mOutputImageOverlayGrid \in {loc.imageOverlayGrid, BlankImage}
        /\ m.mOutputImageOverlayFree \in {loc.imageOverlayFree, BlankImage}
        /\ m.mLayerBackground
              \in {loc.layerBackground, Constructed.mLayerBackground,
                   BlankGridLayer(loc.layer.cellWidth, loc.layer.cellHeight,
                                  loc.layer.w, loc.layer.h)}
        /\ m.mLayerOverlay \in {loc.layerOverlayGrid, BlankOverlay}
        /\ m.mLayerOverlayFree \in {loc.layerOverlayFree, BlankOverlay}
        /\ m.mPaletteIndicesBackground
              \in {loc.paletteIndicesBackground, Array2D(loc.layer.w, loc.layer.h, 0)}
        /\ m.mPaletteIndicesOverlay
              \in {loc.paletteIndicesOverlay,
                   Array2D(arg.image.w \div SpriteWidth, arg.image.h \div arg.spriteHeight, 0)}
        /\ m.mPalettes
              \in {loc.palettes, AppendEmptyPalettes(loc.palettes, NumSpritePalettes),
                   Constructed.mPalettes}

\* ------------------------------------------------------------------------
\* C19: the layer split sends every pixel of the input image to exactly one
\* output image: a pixel whose colour is in its cell's overlay colour set
\* keeps its colour in the overlay image and is background in the background
\* image, every other pixel keeps its colour in the background image and is
\* background in the overlay image; overlaying the outputs gives the input
\* back at every pixel of the image.
InOverlaySet(q) ==
    LET cell == <<q[1] \div fnArgs.layerOverlay.cellWidth,
                  q[2] \div fnArgs.layerOverlay.cellHeight>>
    IN /\ cell \in Cells(fnArgs.layerOverlay)
       /\ fnArgs.inputImage.at[q] \in fnArgs.layerOverlay.colors[cell]

SplitPartitionsImage ==
    fnPc = "done" =>
        \A q \in Coords(fnArgs.inputImage.w, fnArgs.inputImage.h) :
            /\ IF InOverlaySet(q)
               THEN /\ fnResult.imageOverlay.at[q] = fnArgs.inputImage.at[q]
                    /\ fnResult.imageBackground.at[q] = fnArgs.backgroundColor
               ELSE /\ fnResult.imageBackground.at[q] = fnArgs.inputImage.at[q]
                    /\ fnResult.imageOverlay.at[q] = fnArgs.backgroundColor
            /\ fnArgs.inputImage.at[q] =
                  IF fnResult.imageOverlay.at[q] # fnArgs.backgroundColor
                  THEN fnResult.imageOverlay.at[q]
                  ELSE fnResult.imageBackground.at[q]

\* ------------------------------------------------------------------------
\* C20: in the remapped layers an ink pixel of colour c drawn with palette
\* index p gets the index p * PaletteGroupSize + rank, rank being the 1-based
\* position of c in palette p; background pixels get 0; and two different
\* (palette index, colour) pairs never get the same index.
HardwareIndex(k) ==
    fnArgs.p[k] * PaletteGroupSize
        + Cardinality({ c \in fnArgs.palettes[fnArgs.p[k] + 1] : c <= fnArgs.color[k] })

RemapIndex ==
    fnPc = "done" =>
        /\ \A k \in 1..2 :
              /\ fnResult.grid[k].at[<<0, 0>>] = HardwareIndex(k)
              /\ fnResult.free[k].at[<<0, 0>>] = HardwareIndex(k)
              /\ \A x \in 1..(SpriteWidth - 1) :
                    fnResult.grid[k].at[<<x, 0>>] = 0 /\ fnResult.free[k].at[<<x, 0>>] = 0
        /\ <<fnArgs.p[1], fnArgs.color[1]>> # <<fnArgs.p[2], fnArgs.color[2]>> =>
              /\ fnResult.grid[1].at[<<0, 0>>] # fnResult.grid[2].at[<<0, 0>>]
              /\ fnResult.free[1].at[<<0, 0>>] # fnResult.free[2].at[<<0, 0>>]

\* ------------------------------------------------------------------------
\* C21: when a pass has decoded its solution, every cell whose kept colour
\* set is empty has palette index 0 (pass 1) or NumBackgroundPalettes
\* (pass 2), whatever palette the solver reported for it, and every other
\* cell has the index that was decoded from the solution.
LoggedProblem == solverLog'[Len(solverLog')].problem

EmptyCellsDefaulted(parsed, paletteIndices, emptyIndex) ==
    /\ parsed.err = ""
    /\ \A c \in Cells(parsed.colorsBackground) :
          paletteIndices.at[c] =
              IF parsed.colorsBackground.colors[c] = {} THEN emptyIndex
              ELSE parsed.paletteIndices.at[c]

SecondPassLayer ==
    ImageGridLayer(arg.backgroundColor, SpriteWidth, arg.spriteHeight, loc.imageOverlay)

EmptyCellIndices ==
    [][/\ (pc = "pass1" /\ pc' = "refine1" /\ InvokesSolver(1)) =>
            \E run \in SolverRuns(loc.layer, LoggedProblem, FALSE) :
               /\ run.exitCode = 0
               /\ loc'.layerBackground =
                     ParseCmplSolution(run.file, loc.palettes, loc.layerBackground,
                                       loc.layerOverlay, loc.paletteIndicesBackground,
                                       FALSE).colorsBackground
               /\ EmptyCellsDefaulted(
                     ParseCmplSolution(run.file, loc.palettes, loc.layerBackground,
                                       loc.layerOverlay, loc.paletteIndicesBackground, FALSE),
                     loc'.paletteIndicesBackground, 0)
       /\ (pc = "pass2" /\ pc' = "refine2") =>
            \E run \in SolverRuns(SecondPassLayer, LoggedProblem, TRUE) :
               /\ run.exitCode = 0
               /\ loc'.layerOverlayGrid =
                     ParseCmplSolution(run.file, <<>>, loc.layerOverlayGrid,
                                       loc.layerOverlayFree, loc.paletteIndicesOverlay,
                                       TRUE).colorsBackground
               /\ EmptyCellsDefaulted(
                     ParseCmplSolution(run.file, <<>>, loc.layerOverlayGrid,
                                       loc.layerOverlayFree, loc.paletteIndicesOverlay, TRUE),
                     loc'.paletteIndicesOverlay, NumBackgroundPalettes)]_vars

EmptyCellIndicesWitness ==
    /\ pc = "refine2"
    /\ Pass1Logged
    /\ arg.maxBackgroundPalettes = NumBackgroundPalettes
    /\ arg.maxSpritePalettes = NumSpritePalettes
    /\ \A c \in Cells(loc.layerBackground) :
          loc.layerBackground.colors[c] = {} /\ loc.paletteIndicesBackground.at[c] = 0
    /\ \E c \in Cells(loc.layerOverlayGrid) :
          /\ loc.layerOverlayGrid.colors[c] = {}
          /\ loc.paletteIndicesOverlay.at[c] = NumBackgroundPalettes
    /\ \E c \in Cells(loc.layerOverlayGrid) :
          /\ loc.layerOverlayGrid.colors[c] # {}
          /\ loc.paletteIndicesOverlay.at[c] = NumBackgroundPalettes + NumSpritePalettes - 1

\* ------------------------------------------------------------------------
\* C22: the sprite palette that the pass-2 solution names p is stored in the
\* palette list at index NumBackgroundPalettes + p, the index the sprite
\* palette-index grid uses for the cells assigned to p.
StoredAtOffset(parsed, palettes, paletteIndices) ==
    /\ parsed.err = ""
    /\ paletteIndices =
          SetEmptyPaletteIndices(parsed.paletteIndices, parsed.colorsBackground,
                                 NumBackgroundPalettes)
    /\ \A p \in 0..(Len(parsed.palettes) - 1) :
          /\ Len(palettes) > NumBackgroundPalettes + p
          /\ palettes[NumBackgroundPalettes + p + 1] = parsed.palettes[p + 1]

SpritePalettesAtOffset ==
    [][(pc = "pass2" /\ pc' = "refine2") =>
          \E run \in SolverRuns(SecondPassLayer, LoggedProblem, TRUE) :
             /\ run.exitCode = 0
             /\ StoredAtOffset(
                   ParseCmplSolution(run.file, <<>>, loc.layerOverlayGrid,
                                     loc.layerOverlayFree, loc.paletteIndicesOverlay, TRUE),
                   loc'.palettes, loc'.paletteIndicesOverlay)]_vars

\* ------------------------------------------------------------------------
\* C23: free-sprite extraction terminates for every image and palette list:
\* a sprite extracted without advancing the column removes at least one ink
\* pixel from the working image, a column from which no colour can be
\* extracted is skipped, and the band position strictly increases until it
\* passes the image height.
InkCount(image) ==
    Cardinality({ q \in Coords(image.w, image.h) : image.at[q] # 0 })

ColumnStays ==
    /\ fnPc = "column"
    /\ fnPc' = "column"
    /\ fnResult'.x = fnResult.x

FreeExtractionTerminates ==
    /\ <>(fnPc = "done")
    /\ [](fnPc = "done" =>
            /\ fnResult.y >= fnResult.overlayImage.h
            /\ fnResult.sprites = SpritesOverlayFreeOf(fnArgs.palettes, 0, 1, fnArgs.overlayImage))
    /\ [][/\ ColumnStays =>
               /\ InkCount(fnResult'.overlayImage) < InkCount(fnResult.overlayImage)
               /\ Len(fnResult'.sprites) = Len(fnResult.sprites) + 1
          /\ (fnPc = "column" /\ fnPc' = "column" /\ ~ColumnStays) =>
               /\ fnResult'.x = fnResult.x + 1
               /\ fnResult'.overlayImage = fnResult.overlayImage
          /\ (fnPc = "column" /\ fnPc' = "band") => fnResult'.y > fnResult.y
          /\ (fnPc = "band" /\ fnPc' = "column") => fnResult'.y >= fnResult.y]_vars

FreeExtractionTerminatesWitness ==
    /\ fnPc = "done"
    /\ Len(fnResult.sprites) >= 3
    /\ \E i \in 1..Len(fnResult.sprites) : fnResult.sprites[i].y = MaxBands - 1
    /\ \E i \in 1..(Len(fnResult.sprites) - 1) :
          /\ fnResult.sprites[i].x = fnResult.sprites[i + 1].x
          /\ fnResult.sprites[i].y = fnResult.sprites[i + 1].y

\* ------------------------------------------------------------------------
\* C24: every sprite returned by sprite extraction has a palette index in
\* the sprite sub-range [NumBackgroundPalettes, NumBackgroundPalettes +
\* NumSpritePalettes), and its colours are colours of that sprite palette:
\* a background palette is never used to extract or colour a sprite.
SpritesUseSpritePalettes ==
    fnPc = "done" =>
        \A i \in 1..Len(fnResult.sprites) :
            /\ fnResult.sprites[i].p \in SpritePaletteRange
            /\ fnResult.sprites[i].colors \subseteq fnArgs.palettes[fnResult.sprites[i].p + 1]

====
